---------------------------- MODULE Spec2Model ----------------------------
(***************************************************************************)
(* Exerbud backend: the conversation and progress ledger.                  *)
(*                                                                         *)
(* The storage backend (Postgres through Prisma) is the only shared        *)
(* mutable state.  Every request handler is cut at its awaits: one action  *)
(* per database call, so that two requests interleave exactly where the    *)
(* Node event loop lets them.                                              *)
(*                                                                         *)
(* Specifications:                                                         *)
(*   SpecIdentity  the identity resolver (getOrCreateUser)                 *)
(*   Spec          the message store and the overlay handler               *)
(*   SpecAccount   the message store, hides and the account summary        *)
(*   SpecDrafts    the hide handlers of the other two endpoints            *)
(*   SpecExtract   the progress-event extractor (a pure function)          *)
(***************************************************************************)
EXTENDS Integers, Sequences, FiniteSets, Bags, TLC

(***************************************************************************)
(* Bounds of the model.                                                    *)
(***************************************************************************)
\* ticks of the wall clock (milliseconds) that a run may see
MaxClock == 2
\* identity resolutions started in one run of SpecIdentity
MaxCalls == 3
\* requests started in one run of Spec, SpecAccount or SpecDrafts
MaxReqs == 3
\* rows of table Message
MaxMessages == 3
\* chat requests started in one run of SpecChat or SpecChatMemory
MaxTurns == 1
\* fragments a model reply is concatenated from
MaxFrags == 4

(***************************************************************************)
(* Input domains.                                                          *)
(***************************************************************************)
\* two concurrent requests (serverless invocations / event-loop tasks)
Procs == {1, 2}
\* a null / absent / empty string argument (JS falsy)
None == "none"
ExternalIds == {"shopify:1", "guest:2"}
Emails == {"a@x.io", "b@x.io"}

VARIABLES
    users,          \* table User: sequence of rows, id = index
    conversations,  \* table Conversation: sequence of rows, id = index
    messages,       \* table Message: sequence of rows, id = index
    hidden,         \* table HiddenMessage: bag of <<userId, messageId>>
    pinned,         \* table PinnedMessage: bag of <<userId, messageId>>
    pinSeq,         \* PinnedMessage rows ever inserted, per <<userId, messageId>>
    now,            \* the wall clock, in milliseconds
    req,            \* req[p]: the request process p is serving, and where it is
    resp,           \* the response sent last
    started,        \* number of requests started so far
    log,            \* completed identity resolutions, in completion order
    exText,         \* the reply handed to the extractor
    exOut,          \* what the extractor returned for it
    uploads,        \* table Upload: sequence of rows, id = index
    events          \* table ProgressEvent: sequence of rows, id = index

vars == <<users, conversations, messages, hidden, pinned, pinSeq, now, req,
          resp, started, log, exText, exOut, uploads, events>>

dbVars == <<users, conversations, messages, hidden, pinned>>
exVars == <<exText, exOut>>
turnVars == <<uploads, events>>

Idle == [at |-> "idle"]
NoResp == [kind |-> "none"]

(***************************************************************************)
(* Table User.                                                             *)
(***************************************************************************)
UserIds == 1..Len(users)

\* rows matching  where: { externalId }
UsersByExternalId(externalId) ==
    {u \in UserIds : users[u].externalId = externalId}

\* rows matching  where: { email }
UsersByEmail(email) ==
    {u \in UserIds : users[u].email = email}

\* the unique index dropped: every insert is accepted
ExternalIdTaken_NoIndex(externalId) == FALSE

\* CREATE UNIQUE INDEX "User_externalId_key": an insert of a second row with
\* this externalId is rejected (Prisma error P2002)
ExternalIdTaken(externalId) == UsersByExternalId(externalId) # {}

\* CREATE UNIQUE INDEX "User_email_key": NULLs never collide; `self` is the
\* row being updated (0 for an insert)
EmailTaken(email, self) ==
    /\ email # None
    /\ UsersByEmail(email) \ {self} # {}

\* the timestamp captured once at module load instead of per call
LastSeenForUpdate_Stale(t) == 0

\* dataToUpdate = { lastSeenAt: new Date() }
LastSeenForUpdate(t) == t

\* backfill only: keep an email that is already stored
EmailForUpdate_Backfill(old, email) == IF old = None THEN email ELSE old

\* if (email) dataToUpdate.email = email;
EmailForUpdate(old, email) == IF email # None THEN email ELSE old

(***************************************************************************)
(* Identity resolver: getOrCreateUser({ externalId, email }).              *)
(*                                                                         *)
(* prisma.user.upsert is a read followed by a write unless the database    *)
(* runs it as one INSERT .. ON CONFLICT; the two-step form below contains  *)
(* the atomic one (the two steps taken back to back).  A write that        *)
(* violates a unique index throws and the call returns no user.  The      *)
(* value a call returns is recorded in log (id 0: it threw).               *)
(***************************************************************************)
LogEntry(r, id) ==
    [externalId |-> r.externalId, id |-> id,
     seen |-> IF id = 0 THEN 0 ELSE users'[id].lastSeenAt,
     email |-> IF id = 0 THEN "rejected"
               ELSE IF r.found = 0 THEN "created"
               ELSE IF users'[id].email = users[id].email THEN "kept"
               ELSE IF users[id].email = None THEN "backfilled"
               ELSE "replaced",
     startSeq |-> r.startSeq]

\* if (!externalId) return null;   otherwise  dataToUpdate = {lastSeenAt: new Date()}
GetOrCreateUser_Call(p) ==
    /\ req[p] = Idle
    /\ started < MaxCalls
    /\ started' = started + 1
    /\ \E externalId \in ExternalIds \cup {None}, email \in Emails \cup {None} :
          IF externalId = None
          THEN req' = req
          ELSE req' = [req EXCEPT ![p] =
                     [at |-> "userFind", externalId |-> externalId,
                      email |-> email, t |-> now, startSeq |-> Len(log)]]
    /\ UNCHANGED <<dbVars, pinSeq, now, resp, log, exVars, turnVars>>

\* upsert, the read:  where: { externalId }
GetOrCreateUser_Find(p) ==
    /\ req[p].at = "userFind"
    /\ \E found \in (IF UsersByExternalId(req[p].externalId) = {}
                     THEN {0} ELSE UsersByExternalId(req[p].externalId)) :
          req' = [req EXCEPT ![p] = [req[p] EXCEPT !.at = "userWrite"]
                                     @@ [found |-> found]]
    /\ UNCHANGED <<dbVars, pinSeq, now, resp, started, log, exVars, turnVars>>

\* upsert, the write:  create: { externalId, email: email || null }  or
\* update: dataToUpdate.  lastSeenAt of a created row is set by the client
\* at write time (the column has no database default).
GetOrCreateUser_Write(p) ==
    /\ req[p].at = "userWrite"
    /\ LET r == req[p]
           rejected ==
               IF r.found = 0
               THEN ExternalIdTaken(r.externalId) \/ EmailTaken(r.email, 0)
               ELSE EmailTaken(EmailForUpdate(users[r.found].email, r.email),
                               r.found)
           id == IF rejected THEN 0
                 ELSE IF r.found = 0 THEN Len(users) + 1 ELSE r.found
       IN  /\ users' =
                 IF rejected THEN users
                 ELSE IF r.found = 0
                 THEN Append(users, [externalId |-> r.externalId,
                                     email |-> r.email,
                                     lastSeenAt |-> now])
                 ELSE [users EXCEPT ![r.found] =
                         [@ EXCEPT !.lastSeenAt = LastSeenForUpdate(r.t),
                                   !.email = EmailForUpdate(@, r.email)]]
           /\ log' = Append(log, LogEntry(r, id))
    /\ req' = [req EXCEPT ![p] = Idle]
    /\ UNCHANGED <<conversations, messages, hidden, pinned, pinSeq, now,
                   resp, started, exVars, turnVars>>

\* the wall clock advances
Tick ==
    /\ now < MaxClock
    /\ now' = now + 1
    /\ UNCHANGED <<dbVars, pinSeq, req, resp, started, log, exVars, turnVars>>

InitIdentity ==
    /\ users = <<>>
    /\ conversations = <<>>
    /\ messages = <<>>
    /\ hidden = EmptyBag
    /\ pinned = EmptyBag
    /\ pinSeq = EmptyBag
    /\ now = 0
    /\ req = [p \in Procs |-> Idle]
    /\ resp = NoResp
    /\ started = 0
    /\ log = <<>>
    /\ exText = <<>>
    /\ exOut = [done |-> FALSE]
    /\ uploads = << >>
    /\ events = << >>

NextIdentity ==
    \/ \E p \in Procs : GetOrCreateUser_Call(p)
    \/ \E p \in Procs : GetOrCreateUser_Find(p)
    \/ \E p \in Procs : GetOrCreateUser_Write(p)
    \/ Tick

SpecIdentity == InitIdentity /\ [][NextIdentity]_vars

(***************************************************************************)
(* Tables Conversation and Message.                                        *)
(***************************************************************************)
ConversationIds == 1..Len(conversations)
MessageIds == 1..Len(messages)
Roles == {"user", "assistant"}
Contents == {<<"t", "e", "x", "t">>}

\* a message id no row has (ids are opaque strings chosen by the client
\* library, so a caller can always name one that does not exist)
UnknownMessageId == 99
\* an external id no User row has
UnknownExternalId == "guest:9"

\* where: { id: messageId }  -- any owner
AnyMessage(user, messageId) == messageId \in MessageIds

\* where: { id: messageId, conversation: { userId: user.id } }
OwnedMessage(user, messageId) ==
    /\ messageId \in MessageIds
    /\ conversations[messages[messageId].conversationId].userId = user

\* the rows the user wrote, whatever the conversation
MessagesOf_AuthoredBy(user) ==
    {m \in MessageIds : messages[m].userId = user}

\* where: { conversation: { userId: user.id } }
MessagesOf(user) == {m \in MessageIds : OwnedMessage(user, m)}

\* the oldest row pruned on every append
SaveMessageRows_PruneOldest(conversation, user, role, content) ==
    Append(Tail(messages), [conversationId |-> conversation, userId |-> user,
                            role |-> role, content |-> content,
                            createdAt |-> now])

\* db.message.create({ data: { conversationId, userId, role, content } })
SaveMessageRows(conversation, user, role, content) ==
    Append(messages, [conversationId |-> conversation, userId |-> user,
                      role |-> role, content |-> content,
                      createdAt |-> now])

\* saveMessage({ conversation, user, role, content }): the append of the
\* message store.  The chat handler passes the requesting user with role
\* "user" and no user with role "assistant".
SaveMessage ==
    /\ started < MaxReqs
    /\ Len(messages) < MaxMessages
    /\ started' = started + 1
    /\ \E conversation \in ConversationIds \cup {0},
          user \in UserIds \cup {0},
          role \in Roles,
          content \in Contents \cup {<< >>} :
          /\ (role = "assistant") = (user = 0)
          /\ IF conversation = 0 \/ content = << >>
             THEN messages' = messages
             ELSE messages' = SaveMessageRows(conversation, user, role,
                                              content)
    /\ UNCHANGED <<users, conversations, hidden, pinned, pinSeq, now, req,
                   resp, log, exVars, turnVars>>

(***************************************************************************)
(* Tables HiddenMessage and PinnedMessage: bags of <<userId, messageId>>,  *)
(* one copy per row.                                                       *)
(***************************************************************************)
Rows(table, user, messageId) == CopiesIn(<<user, messageId>>, table)

\* the unique index dropped
HiddenPairTaken_NoIndex(user, messageId) == FALSE

\* CREATE UNIQUE INDEX "HiddenMessage_userId_messageId_key"
HiddenPairTaken(user, messageId) == Rows(hidden, user, messageId) > 0

\* the unique index dropped
PinnedPairTaken_NoIndex(user, messageId) == FALSE

\* CREATE UNIQUE INDEX "PinnedMessage_userId_messageId_key"
PinnedPairTaken(user, messageId) == Rows(pinned, user, messageId) > 0

\* a plain create in place of the upsert: the existing row is not looked for
UpsertFinds_CreateOnly(table, user, messageId) == FALSE

\* upsert, the read:  where: { userId_messageId: { userId, messageId } }
UpsertFinds(table, user, messageId) == Rows(table, user, messageId) > 0

\* "HiddenMessage_messageId_fkey" / "PinnedMessage_messageId_fkey": the
\* referenced Message row must exist
MessageFkHolds(messageId) == messageId \in MessageIds

\* upsert, the write.  found: update: {} leaves the row as it is (and fails
\* if the row has gone meanwhile); not found: create, which the unique
\* index or the foreign key may reject.  Returns the new table, or the
\* table unchanged and ok = FALSE when the write throws.
UpsertWrite(table, taken, found, user, messageId) ==
    IF found
    THEN [ok |-> Rows(table, user, messageId) > 0, table |-> table]
    ELSE IF taken \/ ~MessageFkHolds(messageId)
         THEN [ok |-> FALSE, table |-> table]
         ELSE [ok |-> TRUE,
               table |-> table (+) SetToBag({<<user, messageId>>})]

\* the where clause left out
DeleteMany_EveryRow(table, user, messageId) == EmptyBag

\* deleteMany({ where: { userId, messageId } }): every matching row
DeleteMany(table, user, messageId) ==
    [pair \in BagToSet(table) \ {<<user, messageId>>} |-> table[pair]]

(***************************************************************************)
(* Helpers shared by the request handlers.                                 *)
(*                                                                         *)
(* No action of Spec or SpecDrafts writes the User table, so the user      *)
(* lookup that opens every handler is taken together with the parsing of   *)
(* the request: its result does not depend on when it runs.                *)
(***************************************************************************)
\* prisma.user.findFirst({ where: { OR: [{ externalId }, { email }] } }):
\* the rows either clause matches (findFirst returns any one of them)
UsersMatching(externalId, email) ==
    (IF externalId = None THEN {} ELSE UsersByExternalId(externalId))
    \cup (IF email = None THEN {} ELSE UsersByEmail(email))

\* res.status(..).json(..): the handler of process p returns
Respond(p, r) ==
    /\ resp' = r
    /\ req' = [req EXCEPT ![p] = Idle]

\* the handler of process p goes on to its next await
Goto(p, at, locals) ==
    /\ req' = [req EXCEPT ![p] = locals @@ [req[p] EXCEPT !.at = at]]
    /\ UNCHANGED resp

\* the JSON body of an overlay response; `r` is the request it answers
Answer(status, ok, reason, r) ==
    [kind |-> "overlay", status |-> status, ok |-> ok, reason |-> reason,
     action |-> r.action, messageId |-> r.messageId, user |-> r.user,
     found |-> r.found, thrown |-> FALSE]

\* the body sent from a catch block after a storage call threw for a
\* reason outside the schema (connection lost, timeout)
Thrown(status, reason, r) ==
    [Answer(status, FALSE, reason, r) EXCEPT !.thrown = TRUE]

\* a refusal sent before any row was read: the body names no row
Refuse(status, reason) ==
    [kind |-> "overlay", status |-> status, ok |-> FALSE, reason |-> reason,
     action |-> None, messageId |-> 0, user |-> 0, found |-> FALSE,
     thrown |-> FALSE]

\* a request as parsed from the body; user: the User row found (0: none
\* yet), found: whether the upsert's read found the overlay row
Request(h, at, action, messageId, user) ==
    [h |-> h, at |-> at, action |-> action, messageId |-> messageId,
     user |-> user, found |-> FALSE]

\* `guest:${body.clientId || body.sessionId || randomUUID().slice(0, 12)}`
\* for the request of the given turn that carries no external id
GuestExternalId(turn) ==
    <<"guest:r1", "guest:r2", "guest:r3", "guest:r4", "guest:r5">>[turn]

\* the identities a dashboard request may carry: either user's external
\* id, none at all, an unknown one, the id a chat turn gave a guest, and
\* user 2's external id together with user 1's email (the OR then matches
\* both rows)
Identities ==
    {<<e, None>> : e \in ExternalIds \cup {None, UnknownExternalId}}
    \cup {<<GuestExternalId(turn), None>> : turn \in 1..MaxTurns}
    \cup {<<"guest:2", "a@x.io">>}

MessageIdInputs == MessageIds \cup {0, UnknownMessageId}

\* a new request, served by the first free process
Begin(p) ==
    /\ req[p] = Idle
    /\ \A q \in Procs : q < p => req[q] # Idle
    /\ started < MaxReqs
    /\ started' = started + 1

(***************************************************************************)
(* api/exerbud-account-message.js: delete (hide), pin and unpin.           *)
(***************************************************************************)
\* body parsed and validated: action, messageId, identity; then
\* user = await prisma.user.findFirst(..)
AccountMessage_Call(p) ==
    /\ Begin(p)
    /\ \E action \in {"delete", "pin", "unpin", "hide"},
          messageId \in MessageIdInputs,
          id \in Identities :
          LET r == Request("account-message", "message", action, messageId, 0)
              matching == UsersMatching(id[1], id[2])
          IN  IF action \notin {"delete", "pin", "unpin"}
              THEN Respond(p, Refuse(400, "unsupported_action"))
              ELSE IF messageId = 0
              THEN Respond(p, Refuse(400, "missing_message_id"))
              ELSE IF id[1] = None /\ id[2] = None
              THEN Respond(p, Refuse(400, "missing_identity"))
              ELSE \/ Respond(p, [Refuse(200, "user_lookup_error") EXCEPT !.thrown = TRUE])
                   \/ /\ matching = {}
                      /\ Respond(p, Refuse(200, "user_not_found"))
                   \/ \E u \in matching :
                         /\ req' = [req EXCEPT ![p] = [r EXCEPT !.user = u]]
                         /\ UNCHANGED resp
    /\ UNCHANGED <<dbVars, pinSeq, now, log, exVars, turnVars>>

\* message = await prisma.message.findFirst(..): outside any try block, a
\* throw reaches the top-level catch
AccountMessage_Message(p) ==
    /\ req[p].at = "message"
    /\ req[p].h = "account-message"
    /\ LET r == req[p]
       IN  \/ Respond(p, Thrown(200, "unexpected_error", r))
           \/ /\ ~OwnedMessage(r.user, r.messageId)
              /\ Respond(p, Answer(200, FALSE, "message_not_found", r))
           \/ /\ OwnedMessage(r.user, r.messageId)
              /\ Goto(p, IF r.action = "unpin" THEN "deleteMany"
                         ELSE "upsertFind", << >>)
    /\ UNCHANGED <<dbVars, pinSeq, now, started, log, exVars, turnVars>>

\* what the handler answers when the write of `action` throws
AccountMessage_WriteError(action) ==
    CASE action = "delete" -> "hidden_message_error"
      [] action = "pin" -> "pinned_message_error"
      [] action = "unpin" -> "unpinned_message_error"

\* prisma.hiddenMessage.upsert / prisma.pinnedMessage.upsert, the read
AccountMessage_UpsertFind(p) ==
    /\ req[p].at = "upsertFind"
    /\ req[p].h = "account-message"
    /\ LET r == req[p]
           table == IF r.action = "delete" THEN hidden ELSE pinned
       IN  \/ Respond(p, Thrown(200,
                                AccountMessage_WriteError(r.action), r))
           \/ Goto(p, "upsertWrite",
                   [found |-> UpsertFinds(table, r.user, r.messageId)])
    /\ UNCHANGED <<dbVars, pinSeq, now, started, log, exVars, turnVars>>

\* prisma.hiddenMessage.upsert / prisma.pinnedMessage.upsert, the write
AccountMessage_UpsertWrite(p) ==
    /\ req[p].at = "upsertWrite"
    /\ req[p].h = "account-message"
    /\ LET r == req[p]
           w == IF r.action = "delete"
                THEN UpsertWrite(hidden, HiddenPairTaken(r.user, r.messageId),
                                 r.found, r.user, r.messageId)
                ELSE UpsertWrite(pinned, PinnedPairTaken(r.user, r.messageId),
                                 r.found, r.user, r.messageId)
       IN  \/ /\ Respond(p, Thrown(200,
                                   AccountMessage_WriteError(r.action), r))
              /\ UNCHANGED <<hidden, pinned, pinSeq>>
           \/ /\ ~w.ok
              /\ Respond(p, Answer(200, FALSE,
                                   AccountMessage_WriteError(r.action), r))
              /\ UNCHANGED <<hidden, pinned, pinSeq>>
           \/ /\ w.ok
              /\ Respond(p, Answer(200, TRUE,
                                   IF r.action = "delete" THEN "softDeleted"
                                   ELSE "pinned", r))
              /\ IF r.action = "delete"
                 THEN /\ hidden' = w.table
                      /\ UNCHANGED <<pinned, pinSeq>>
                 ELSE /\ pinned' = w.table
                      /\ pinSeq' = IF r.found THEN pinSeq
                                   ELSE pinSeq (+) SetToBag({<<r.user,
                                                              r.messageId>>})
                      /\ hidden' = hidden
    /\ UNCHANGED <<users, conversations, messages, now, started, log, exVars, turnVars>>

\* prisma.pinnedMessage.deleteMany(..)
AccountMessage_Unpin(p) ==
    /\ req[p].at = "deleteMany"
    /\ req[p].h = "account-message"
    /\ LET r == req[p]
       IN  \/ /\ Respond(p, Thrown(200,
                                   AccountMessage_WriteError(r.action), r))
              /\ pinned' = pinned
           \/ /\ Respond(p, Answer(200, TRUE, "unpinned", r))
              /\ pinned' = DeleteMany(pinned, r.user, r.messageId)
    /\ UNCHANGED <<users, conversations, messages, hidden, pinSeq, now,
                   started, log, exVars, turnVars>>

(***************************************************************************)
(* api/exerbud-account-messages.js: delete (hide) only; the ownership      *)
(* check and the upsert share one try block.                               *)
(***************************************************************************)
\* body parsed; user lookup; an action other than "delete" is refused only
\* after the user was found
AccountMessages_Call(p) ==
    /\ Begin(p)
    /\ \E action \in {"delete", "pin", None},
          messageId \in MessageIdInputs,
          id \in Identities :
          LET r == Request("account-messages", "message", action, messageId, 0)
              matching == UsersMatching(id[1], id[2])
          IN  IF action = None \/ messageId = 0
              THEN Respond(p, Refuse(400, "Missing action or messageId"))
              ELSE IF id[1] = None /\ id[2] = None
              THEN Respond(p, Refuse(200, "missing_identity"))
              ELSE \/ Respond(p, [Refuse(200, "db_error_user") EXCEPT !.thrown = TRUE])
                   \/ /\ matching = {}
                      /\ Respond(p, Refuse(200, "user_not_found"))
                   \/ /\ matching # {}
                      /\ action # "delete"
                      /\ Respond(p, Refuse(400, "Unknown action"))
                   \/ /\ action = "delete"
                      /\ \E u \in matching :
                            /\ req' = [req EXCEPT ![p] = [r EXCEPT !.user = u]]
                            /\ UNCHANGED resp
    /\ UNCHANGED <<dbVars, pinSeq, now, log, exVars, turnVars>>

\* msg = await prisma.message.findFirst(..)
AccountMessages_Message(p) ==
    /\ req[p].at = "message"
    /\ req[p].h = "account-messages"
    /\ LET r == req[p]
       IN  \/ Respond(p, Thrown(200, "db_error_delete", r))
           \/ /\ ~OwnedMessage(r.user, r.messageId)
              /\ Respond(p, Answer(200, FALSE, "message_not_found", r))
           \/ /\ OwnedMessage(r.user, r.messageId)
              /\ Goto(p, "upsertFind", << >>)
    /\ UNCHANGED <<dbVars, pinSeq, now, started, log, exVars, turnVars>>

\* prisma.hiddenMessage.upsert, the read
AccountMessages_UpsertFind(p) ==
    /\ req[p].at = "upsertFind"
    /\ req[p].h = "account-messages"
    /\ LET r == req[p]
       IN  \/ Respond(p, Thrown(200, "db_error_delete", r))
           \/ Goto(p, "upsertWrite",
                   [found |-> UpsertFinds(hidden, r.user, r.messageId)])
    /\ UNCHANGED <<dbVars, pinSeq, now, started, log, exVars, turnVars>>

\* prisma.hiddenMessage.upsert, the write
AccountMessages_UpsertWrite(p) ==
    /\ req[p].at = "upsertWrite"
    /\ req[p].h = "account-messages"
    /\ LET r == req[p]
           w == UpsertWrite(hidden, HiddenPairTaken(r.user, r.messageId),
                            r.found, r.user, r.messageId)
       IN  \/ /\ Respond(p, Thrown(200, "db_error_delete", r))
              /\ hidden' = hidden
           \/ /\ ~w.ok
              /\ Respond(p, Answer(200, FALSE, "db_error_delete", r))
              /\ hidden' = hidden
           \/ /\ w.ok
              /\ Respond(p, Answer(200, TRUE, "softDeleted", r))
              /\ hidden' = w.table
    /\ UNCHANGED <<users, conversations, messages, pinned, pinSeq, now,
                   started, log, exVars, turnVars>>

(***************************************************************************)
(* api/exerbud-conversations.js, second module: delete/hide and unhide.    *)
(* The message is used as the caller named it: no lookup precedes the      *)
(* upsert.                                                                 *)
(***************************************************************************)
\* body parsed; user lookup; the dispatch on the lower-cased action
HideMessage_Call(p) ==
    /\ Begin(p)
    /\ \E action \in {"delete", "hide", "unhide", "pin"},
          messageId \in MessageIdInputs,
          id \in Identities :
          LET r == Request("conversations",
                           IF action = "unhide" THEN "deleteMany"
                           ELSE "upsertFind", action, messageId, 0)
              matching == UsersMatching(id[1], id[2])
          IN  IF messageId = 0
              THEN Respond(p, Refuse(400, "Missing messageId"))
              ELSE IF id[1] = None /\ id[2] = None
              THEN Respond(p, Refuse(400, "Missing identity"))
              ELSE \/ Respond(p, [Refuse(200, "user_lookup_failed") EXCEPT !.thrown = TRUE])
                   \/ /\ matching = {}
                      /\ Respond(p, Refuse(200, "user_not_found"))
                   \/ /\ matching # {}
                      /\ action \notin {"delete", "hide", "unhide"}
                      /\ Respond(p, Refuse(400, "Unknown action"))
                   \/ /\ action \in {"delete", "hide", "unhide"}
                      /\ \E u \in matching :
                            /\ req' = [req EXCEPT ![p] = [r EXCEPT !.user = u]]
                            /\ UNCHANGED resp
    /\ UNCHANGED <<dbVars, pinSeq, now, log, exVars, turnVars>>

\* prisma.hiddenMessage.upsert, the read
HideMessage_UpsertFind(p) ==
    /\ req[p].at = "upsertFind"
    /\ req[p].h = "conversations"
    /\ LET r == req[p]
       IN  \/ Respond(p, Thrown(200, "db_error_hide", r))
           \/ Goto(p, "upsertWrite",
                   [found |-> UpsertFinds(hidden, r.user, r.messageId)])
    /\ UNCHANGED <<dbVars, pinSeq, now, started, log, exVars, turnVars>>

\* prisma.hiddenMessage.upsert, the write
HideMessage_UpsertWrite(p) ==
    /\ req[p].at = "upsertWrite"
    /\ req[p].h = "conversations"
    /\ LET r == req[p]
           w == UpsertWrite(hidden, HiddenPairTaken(r.user, r.messageId),
                            r.found, r.user, r.messageId)
       IN  \/ /\ Respond(p, Thrown(200, "db_error_hide", r))
              /\ hidden' = hidden
           \/ /\ ~w.ok
              /\ Respond(p, Answer(200, FALSE, "db_error_hide", r))
              /\ hidden' = hidden
           \/ /\ w.ok
              /\ Respond(p, Answer(200, TRUE, "hidden", r))
              /\ hidden' = w.table
    /\ UNCHANGED <<users, conversations, messages, pinned, pinSeq, now,
                   started, log, exVars, turnVars>>

\* prisma.hiddenMessage.deleteMany(..)
HideMessage_Unhide(p) ==
    /\ req[p].at = "deleteMany"
    /\ req[p].h = "conversations"
    /\ LET r == req[p]
       IN  \/ /\ Respond(p, Thrown(200, "db_error_unhide", r))
              /\ hidden' = hidden
           \/ /\ Respond(p, Answer(200, TRUE, "unhidden", r))
              /\ hidden' = DeleteMany(hidden, r.user, r.messageId)
    /\ UNCHANGED <<users, conversations, messages, pinned, pinSeq, now,
                   started, log, exVars, turnVars>>

(***************************************************************************)
(* Texts as sequences of characters.                                       *)
(***************************************************************************)
\* String.prototype.indexOf: the first 0-based position where pat occurs
\* in text, -1 when it does not occur
MatchesAt(text, pat, i) ==
    /\ i + Len(pat) <= Len(text)
    /\ \A k \in 1..Len(pat) : text[i + k] = pat[k]

IndexOf(text, pat) ==
    LET at == {i \in 0..Len(text) : MatchesAt(text, pat, i)}
    IN  IF at = {} THEN -1 ELSE CHOOSE i \in at : \A j \in at : i <= j

IsSpace(c) == c = " "

(***************************************************************************)
(* api/exerbud-account.js: "This Week at a Glance".  The handler loads the *)
(* user's messages and derives the weekly summary from the text of the     *)
(* assistant messages of the last 7 days.  Texts are sequences of          *)
(* characters; time is counted in half days.                               *)
(***************************************************************************)
\* String.prototype.toLowerCase on the letters the texts use
UpperCase ==
    <<"A", "B", "C", "D", "E", "F", "G", "H", "I", "J", "K", "L", "M", "N",
      "O", "P", "Q", "R", "S", "T", "U", "V", "W", "X", "Y", "Z">>
LowerCase ==
    <<"a", "b", "c", "d", "e", "f", "g", "h", "i", "j", "k", "l", "m", "n",
      "o", "p", "q", "r", "s", "t", "u", "v", "w", "x", "y", "z">>
toLowerCase(text) ==
    [k \in 1..Len(text) |->
        IF \E u \in 1..Len(UpperCase) : UpperCase[u] = text[k]
        THEN LowerCase[CHOOSE u \in 1..Len(UpperCase) : UpperCase[u] = text[k]]
        ELSE text[k]]

\* String.prototype.includes
Includes(text, pat) == IndexOf(text, pat) # -1

Digits == <<"0", "1", "2", "3", "4", "5", "6", "7", "8", "9">>
DigitValue(c) == (CHOOSE k \in 1..Len(Digits) : Digits[k] = c) - 1

\* parseInt(m[1], 10) of a run of digits
RECURSIVE ParseInt(_)
ParseInt(ds) ==
    IF ds = << >> THEN 0
    ELSE 10 * ParseInt(SubSeq(ds, 1, Len(ds) - 1)) + DigitValue(ds[Len(ds)])

CalorieUnits == {<<"k", "c", "a", "l">>,
                 <<"c", "a", "l", "o", "r", "i", "e", "s">>}

\* /([0-9]{2,4})\s*(kcal|calories)/i matches with its n digits starting
\* after offset i: the digits, any white space, then the unit in either
\* case (lower: the text in lower case)
CalorieMatchAt(lower, i, n) ==
    /\ i + n <= Len(lower)
    /\ \A k \in 1..n : \E d \in 1..Len(Digits) : Digits[d] = lower[i + k]
    /\ \E s \in 0..(Len(lower) - i - n) :
          /\ \A k \in 1..s : IsSpace(lower[i + n + k])
          /\ \E unit \in CalorieUnits : MatchesAt(lower, unit, i + n + s)

CalorieMatches(text) ==
    LET lower == toLowerCase(text)
    IN  {m \in (0..Len(text)) \X (2..4) : CalorieMatchAt(lower, m[1], m[2])}

\* the match the regular expression reports: leftmost, and at that offset
\* with as many digits as still match
FirstCalorieMatch(text) ==
    CHOOSE m \in CalorieMatches(text) :
        \A o \in CalorieMatches(text) :
            \/ m[1] < o[1]
            \/ m[1] = o[1] /\ m[2] >= o[2]

\* extractCaloriesFromText: a number, or null when nothing matches
extractCaloriesFromText(text) ==
    IF text = << >> \/ CalorieMatches(text) = {}
    THEN [isNumber |-> FALSE, value |-> 0]
    ELSE LET m == FirstCalorieMatch(text)
         IN  [isNumber |-> TRUE,
              value |-> ParseInt(SubSeq(text, m[1] + 1, m[1] + m[2]))]

\* the phrases that mark a meal analysis; the longer forms the source lists
\* ("here's the analysis of your plate", ..) contain one of these
MealPhrases ==
    {<<"a", "n", "a", "l", "y", "s", "i", "s", " ", "o", "f", " ", "t", "h",
      "e", " ", "f", "o", "o", "d", " ", "i", "t", "e", "m", "s", " ", "i",
      "n", " ", "t", "h", "e", " ", "i", "m", "a", "g", "e">>,
     <<"h", "e", "r", "e", "'", "s", " ", "t", "h", "e", " ", "a", "n", "a",
      "l", "y", "s", "i", "s", " ", "o", "f", " ", "t", "h", "i", "s", " ",
      "m", "e", "a", "l">>,
     <<"h", "e", "r", "e", " ", "i", "s", " ", "t", "h", "e", " ", "a", "n",
      "a", "l", "y", "s", "i", "s", " ", "o", "f", " ", "t", "h", "i", "s",
      " ", "m", "e", "a", "l">>,
     <<"a", "n", "a", "l", "y", "s", "i", "s", " ", "o", "f", " ", "y", "o",
      "u", "r", " ", "p", "l", "a", "t", "e">>,
     <<"f", "o", "o", "d", " ", "i", "t", "e", "m", "s", " ", "a", "n", "d",
      " ", "a", "p", "p", "r", "o", "x", "i", "m", "a", "t", "e", " ", "p",
      "o", "r", "t", "i", "o", "n", " ", "s", "i", "z", "e", "s">>,
     <<"a", "p", "p", "r", "o", "x", "i", "m", "a", "t", "e", " ", "p", "o",
      "r", "t", "i", "o", "n", " ", "s", "i", "z", "e", "s">>,
     <<"a", "n", "a", "l", "y", "s", "i", "s", " ", "o", "f", " ", "t", "h",
      "e", " ", "f", "o", "o", "d", " ", "i", "t", "e", "m", " ", "i", "n",
      " ", "y", "o", "u", "r", " ", "i", "m", "a", "g", "e">>,
     <<"a", "n", "a", "l", "y", "s", "i", "s", " ", "o", "f", " ", "t", "h",
      "e", " ", "f", "o", "o", "d", " ", "i", "t", "e", "m", " ", "i", "n",
      " ", "t", "h", "e", " ", "i", "m", "a", "g", "e">>,
     <<"f", "o", "o", "d", " ", "i", "d", "e", "n", "t", "i", "f", "i", "e",
      "d", ":">>}
\* the words that mark a meal when the text also carries a calorie figure
MealWords == {<<"t", "h", "i", "s", " ", "m", "e", "a", "l">>,
              <<"p", "l", "a", "t", "e">>}

isMealLikeFromContent(content) ==
    /\ content # << >>
    /\ LET lower == toLowerCase(content)
       IN  \/ \E ph \in MealPhrases : Includes(lower, ph)
           \/ /\ \E w \in MealWords : Includes(lower, w)
              /\ CalorieMatches(lower) # {}

WorkoutPhrases ==
    {<<"w", "o", "r", "k", "o", "u", "t", " ", "p", "l", "a", "n">>,
     <<"t", "r", "a", "i", "n", "i", "n", "g", " ", "p", "l", "a", "n">>,
     <<"w", "e", "e", "k", "l", "y", " ", "p", "l", "a", "n">>,
     <<"r", "o", "u", "t", "i", "n", "e">>}
WorkoutWords == {<<"w", "o", "r", "k", "o", "u", "t">>,
                 <<"p", "l", "a", "n">>}

isWorkoutLikeFromContent(content) ==
    /\ content # << >>
    /\ LET lower == toLowerCase(content)
       IN  \/ \E ph \in WorkoutPhrases : Includes(lower, ph)
           \/ \A w \in WorkoutWords : Includes(lower, w)

\* "progress photos" contains "progress photo"
BodyScanPhrases ==
    {<<"b", "o", "d", "y", " ", "s", "c", "a", "n">>,
     <<"p", "r", "o", "g", "r", "e", "s", "s", " ", "p", "h", "o", "t", "o">>,
     <<"p", "r", "o", "g", "r", "e", "s", "s", " ", "p", "i", "c", "t", "u", "r", "e">>}

isBodyScanLikeFromContent(content) ==
    /\ content # << >>
    /\ \E ph \in BodyScanPhrases : Includes(toLowerCase(content), ph)

\* unnamed/part_011: the markers of a progress block in a model reply
PROGRESS_JSON_TAG_START ==
    <<"[", "[", "P", "R", "O", "G", "R", "E", "S", "S", "_", "E", "V", "E",
      "N", "T", "_", "J", "S", "O", "N", "]", "]">>
PROGRESS_JSON_TAG_END ==
    <<"[", "[", "/", "P", "R", "O", "G", "R", "E", "S", "S", "_", "E", "V",
      "E", "N", "T", "_", "J", "S", "O", "N", "]", "]">>

\* completion.choices?.[0]?.message?.content?.trim() || "I'm sorry ..":
\* prose; a block with a JSON object and prose; the block alone; a block
\* that does not parse; a block holding the JSON number 0
ChatReplies ==
    {<<"x">>,
     PROGRESS_JSON_TAG_START \o <<"{", "}">> \o PROGRESS_JSON_TAG_END
        \o <<"x">>,
     PROGRESS_JSON_TAG_START \o <<"{", "}">> \o PROGRESS_JSON_TAG_END,
     PROGRESS_JSON_TAG_START \o <<"{">> \o PROGRESS_JSON_TAG_END \o <<"x">>,
     PROGRESS_JSON_TAG_START \o <<"0">> \o PROGRESS_JSON_TAG_END \o <<"x">>}

\* body.message of a chat request, and the text stored for a request that
\* carries attachments and no message
ChatMessage == <<"h", "i">>
AttachmentsOnly ==
    <<"[", "a", "t", "t", "a", "c", "h", "m", "e", "n", "t", "s", "]">>

\* the assistant replies and user texts of the ledgers of SpecWeekly
WeeklyContents ==
    {<<"A", "n", "a", "l", "y", "s", "i", "s", " ", "o", "f", " ", "y", "o",
       "u", "r", " ", "p", "l", "a", "t", "e", ":", " ", "4", "5", "1", " ",
       "k", "c", "a", "l">>,
     <<"F", "o", "o", "d", " ", "i", "d", "e", "n", "t", "i", "f", "i", "e",
       "d", ":", " ", "1", "2", "0", "0", " ", "C", "a", "l", "o", "r", "i",
       "e", "s">>,
     <<"t", "h", "i", "s", " ", "m", "e", "a", "l", " ", "i", "s", " ", "7",
       " ", "k", "c", "a", "l">>,
     <<"F", "o", "o", "d", " ", "i", "d", "e", "n", "t", "i", "f", "i", "e",
       "d", ":", " ", "s", "o", "u", "p">>,
     <<"Y", "o", "u", "r", " ", "w", "o", "r", "k", "o", "u", "t", " ", "p",
       "l", "a", "n", " ", "a", "n", "d", " ", "b", "o", "d", "y", " ", "s",
       "c", "a", "n">>,
     <<"p", "l", "a", "t", "e", " ", "1", "2", "3", "4", "5", "k", "c", "a",
       "l", " ", "9", "0", " ", "k", "c", "a", "l">>}

\* what the forEach learns from the text of one message: the three
\* classifications and the calorie figure, worked out once per text
Classify(c) ==
    [looksLikeMeal |-> isMealLikeFromContent(c),
     looksLikeWorkout |-> isWorkoutLikeFromContent(c),
     looksLikeBodyScan |-> isBodyScanLikeFromContent(c),
     cals |-> extractCaloriesFromText(c)]
Classified ==
    [c \in Contents \cup WeeklyContents \cup ChatReplies
            \cup {ChatMessage, AttachmentsOnly} |-> Classify(c)]
ClassOf(c) == IF c \in DOMAIN Classified THEN Classified[c] ELSE Classify(c)

\* const weekAgo = new Date(now.getTime() - 7 * 24 * 60 * 60 * 1000)
WindowDays == 7
TicksPerDay == 40
WeekAgo(t) == t - WindowDays * TicksPerDay

\* created.toISOString().slice(0, 10): the UTC calendar day
DayKey(t) == t \div TicksPerDay

\* the role not looked at
Counted_AnyRole(rows, t) ==
    {m \in rows : ~(messages[m].createdAt < WeekAgo(t))}

\* the rows of recentMessages the forEach does not skip: assistant
\* messages not older than weekAgo
Counted(rows, t) ==
    {m \in rows : /\ messages[m].role = "assistant"
                  /\ ~(messages[m].createdAt < WeekAgo(t))}

MealRows(rows, t) ==
    {m \in Counted(rows, t) : ClassOf(messages[m].content).looksLikeMeal}

\* the meals whose text carries a calorie figure
CalorieRows(rows, t) ==
    {m \in MealRows(rows, t) :
        ClassOf(messages[m].content).cals.isNumber}

RECURSIVE SumCalories(_)
SumCalories(rows) ==
    IF rows = {} THEN 0
    ELSE LET m == CHOOSE m \in rows : TRUE
         IN  ClassOf(messages[m].content).cals.value
             + SumCalories(rows \ {m})

\* caloriesByDay[dayKey] = (caloriesByDay[dayKey] || 0) + cals
caloriesByDay(rows, t) ==
    [d \in {DayKey(messages[m].createdAt) : m \in CalorieRows(rows, t)} |->
        SumCalories({m \in CalorieRows(rows, t) :
                        DayKey(messages[m].createdAt) = d})]

RECURSIVE SumBuckets(_)
SumBuckets(byDay) ==
    IF DOMAIN byDay = {} THEN 0
    ELSE LET d == CHOOSE d \in DOMAIN byDay : TRUE
         IN  byDay[d] + SumBuckets([e \in DOMAIN byDay \ {d} |-> byDay[e]])

\* Math.round(num / den) for num >= 0, den > 0: halves round up
MathRound(num, den) == (2 * num + den) \div (2 * den)

AverageOver_Meals(rows, t, byDay) == Cardinality(CalorieRows(rows, t))

\* dayKeys.length
AverageOver(rows, t, byDay) == Cardinality(DOMAIN byDay)

\* the summary object of the response
WeeklySummary(rows, t) ==
    LET byDay == caloriesByDay(rows, t)
    IN  [mealsThisWeek |-> Cardinality(MealRows(rows, t)),
         bodyScansThisWeek |->
             Cardinality({m \in Counted(rows, t) :
                 ClassOf(messages[m].content).looksLikeBodyScan}),
         workoutsThisWeek |->
             Cardinality({m \in Counted(rows, t) :
                 ClassOf(messages[m].content).looksLikeWorkout}),
         avgCaloriesPerDay |->
             IF DOMAIN byDay = {} THEN 0
             ELSE MathRound(SumBuckets(byDay), AverageOver(rows, t, byDay))]

(***************************************************************************)
(* api/exerbud-account.js: the account summary.  After findMany the        *)
(* handler makes no further database call: the weekly summary is computed  *)
(* from recentMessages in memory and the response is sent.                 *)
(***************************************************************************)
Summary(hasData, reason, total, recent, soft, user) ==
    [kind |-> "summary", status |-> 200, hasData |-> hasData,
     reason |-> reason, totalMessages |-> total, recentMessages |-> recent,
     softDeleteSupported |-> soft, user |-> user]

\* the ids a listing holds
Ids(listing) == {listing[k] : k \in 1..Len(listing)}

\* the body of a response that carries data: the weekly summary is derived
\* from recentMessages at the time the response is built
AccountData(total, recent, soft, user) ==
    Summary(TRUE, None, total, recent, soft, user)
    @@ [summary |-> WeeklySummary(Ids(recent), now)]

\* the filter dropped: every message of the user is selected
MessagesWhere_Unfiltered(user, soft) == MessagesOf(user)

\* messagesWhere: baseWhere, with  hiddenBy: { none: { userId: user.id } }
\* when the HiddenMessage probe succeeded
MessagesWhere(user, soft) ==
    IF soft
    THEN {m \in MessagesOf(user) : Rows(hidden, user, m) = 0}
    ELSE MessagesOf(user)

\* orderBy: { createdAt: "desc" }: the orders the store may return the
\* rows in; rows created at the same instant come in any order
RECURSIVE OrderedByCreatedAt(_)
OrderedByCreatedAt(rows) ==
    IF rows = {} THEN {<< >>}
    ELSE UNION {{<<m>> \o rest : rest \in OrderedByCreatedAt(rows \ {m})} :
                   m \in {n \in rows :
                            \A o \in rows :
                               messages[o].createdAt <= messages[n].createdAt}}

\* take: 250
take == 250

\* prisma.message.findMany({ where: messagesWhere, orderBy, take })
FindMany(user, soft) ==
    {SubSeq(o, 1, IF Len(o) < take THEN Len(o) ELSE take) :
        o \in OrderedByCreatedAt(MessagesWhere(user, soft))}

LoadFailed_Propagates(r) ==
    [kind |-> "error", status |-> 500, totalMessages |-> 0]

\* catch (err): totalMessages = 0; recentMessages = []; the handler goes
\* on to the summary and the response
LoadFailed(r) == AccountData(0, << >>, r.soft, r.user)

\* identity parsed from the query; user = await prisma.user.findFirst(..)
Account_Call(p) ==
    /\ Begin(p)
    /\ \E id \in Identities :
          LET matching == UsersMatching(id[1], id[2])
          IN  IF id[1] = None /\ id[2] = None
              THEN Respond(p, Summary(FALSE, "missing_identity", 0, << >>,
                                      FALSE, 0))
              ELSE \/ Respond(p, Summary(FALSE, "user_not_found", 0, << >>,
                                         FALSE, 0))
                   \/ \E u \in matching :
                         /\ req' = [req EXCEPT ![p] =
                               [h |-> "account", at |-> "probe", user |-> u,
                                soft |-> FALSE, total |-> 0]]
                         /\ UNCHANGED resp
    /\ UNCHANGED <<dbVars, pinSeq, now, log, exVars, turnVars>>

\* await prisma.hiddenMessage.count(..): the probe; if it throws the
\* handler falls back to baseWhere and softDeleteSupported = false
Account_Probe(p) ==
    /\ req[p].at = "probe"
    /\ req[p].h = "account"
    /\ \E soft \in BOOLEAN : Goto(p, "count", [soft |-> soft])
    /\ UNCHANGED <<dbVars, pinSeq, now, started, log, exVars, turnVars>>

\* the messages loaded whatever the count
Account_Count_AlwaysLoads(p) ==
    /\ req[p].at = "count"
    /\ req[p].h = "account"
    /\ LET r == req[p]
           total == Cardinality(MessagesWhere(r.user, r.soft))
       IN  \/ Respond(p, LoadFailed(r))
           \/ Goto(p, "findMany", [total |-> total])
    /\ UNCHANGED <<dbVars, pinSeq, now, started, log, exVars, turnVars>>

\* totalMessages = await prisma.message.count({ where: messagesWhere });
\* a throw, or a count of 0, ends the loading with no messages
Account_Count(p) ==
    /\ req[p].at = "count"
    /\ req[p].h = "account"
    /\ LET r == req[p]
           total == Cardinality(MessagesWhere(r.user, r.soft))
       IN  \/ Respond(p, LoadFailed(r))
           \/ /\ total = 0
              /\ Respond(p, AccountData(0, << >>, r.soft, r.user))
           \/ /\ total > 0
              /\ Goto(p, "findMany", [total |-> total])
    /\ UNCHANGED <<dbVars, pinSeq, now, started, log, exVars, turnVars>>

\* recentMessages = await prisma.message.findMany({ where: messagesWhere,
\* take: 250 }); then the response
Account_FindMany(p) ==
    /\ req[p].at = "findMany"
    /\ req[p].h = "account"
    /\ LET r == req[p]
       IN  \/ Respond(p, LoadFailed(r))
           \/ \E listing \in FindMany(r.user, r.soft) :
                 Respond(p, AccountData(r.total, listing, r.soft, r.user))
    /\ UNCHANGED <<dbVars, pinSeq, now, started, log, exVars, turnVars>>

(***************************************************************************)
(* Spec: the ledger after one chat turn of each of two users, serving      *)
(* appends and overlay requests (api/exerbud-account-message.js).          *)
(* SpecAccount: the same ledger serving appends, hides                     *)
(* (api/exerbud-account-messages.js) and account summaries.                *)
(* SpecDrafts: the same ledger served by the two hide handlers of          *)
(* api/exerbud-account-messages.js and api/exerbud-conversations.js.       *)
(***************************************************************************)
\* the rows two chat turns leave: user 1 ("shopify:1", with an email) sent
\* a message in conversation 1, user 2 ("guest:2") one in conversation 2
SeedUsers ==
    <<[externalId |-> "shopify:1", email |-> "a@x.io", lastSeenAt |-> 0],
      [externalId |-> "guest:2", email |-> None, lastSeenAt |-> 0]>>
\* a Conversation row as the store fills it in: the start time defaults to
\* the current timestamp, and no code path archives a conversation
NewConversation(userId, t) ==
    [userId |-> userId, createdAt |-> t, archived |-> FALSE]
SeedConversations == <<NewConversation(1, 0), NewConversation(2, 0)>>
SeedMessages ==
    <<[conversationId |-> 1, userId |-> 1, role |-> "user",
       content |-> <<"t", "e", "x", "t">>, createdAt |-> 0],
      [conversationId |-> 2, userId |-> 2, role |-> "user",
       content |-> <<"t", "e", "x", "t">>, createdAt |-> 0]>>

Init ==
    /\ users = SeedUsers
    /\ conversations = SeedConversations
    /\ messages = SeedMessages
    /\ hidden = EmptyBag
    /\ pinned = EmptyBag
    /\ pinSeq = EmptyBag
    /\ now = 0
    /\ req = [p \in Procs |-> Idle]
    /\ resp = NoResp
    /\ started = 0
    /\ log = <<>>
    /\ exText = <<>>
    /\ exOut = [done |-> FALSE]
    /\ uploads = << >>
    /\ events = << >>

Next ==
    \/ SaveMessage
    \/ \E p \in Procs : AccountMessage_Call(p)
    \/ \E p \in Procs : AccountMessage_Message(p)
    \/ \E p \in Procs : AccountMessage_UpsertFind(p)
    \/ \E p \in Procs : AccountMessage_UpsertWrite(p)
    \/ \E p \in Procs : AccountMessage_Unpin(p)

Spec == Init /\ [][Next]_vars

NextAccount ==
    \/ SaveMessage
    \/ \E p \in Procs : AccountMessages_Call(p)
    \/ \E p \in Procs : AccountMessages_Message(p)
    \/ \E p \in Procs : AccountMessages_UpsertFind(p)
    \/ \E p \in Procs : AccountMessages_UpsertWrite(p)
    \/ \E p \in Procs : Account_Call(p)
    \/ \E p \in Procs : Account_Probe(p)
    \/ \E p \in Procs : Account_Count(p)
    \/ \E p \in Procs : Account_FindMany(p)

SpecAccount == Init /\ [][NextAccount]_vars

NextDrafts ==
    \/ \E p \in Procs : AccountMessages_Call(p)
    \/ \E p \in Procs : AccountMessages_Message(p)
    \/ \E p \in Procs : AccountMessages_UpsertFind(p)
    \/ \E p \in Procs : AccountMessages_UpsertWrite(p)
    \/ \E p \in Procs : HideMessage_Call(p)
    \/ \E p \in Procs : HideMessage_UpsertFind(p)
    \/ \E p \in Procs : HideMessage_UpsertWrite(p)
    \/ \E p \in Procs : HideMessage_Unhide(p)

SpecDrafts == Init /\ [][NextDrafts]_vars

(***************************************************************************)
(* Properties of the identity resolver (SpecIdentity).                     *)
(***************************************************************************)
\* call j started after call i had returned
Sequential(i, j) == i < j /\ log[j].startSeq >= i

\* C1: after any interleaving of identity resolutions, concurrent first
\* contacts included, the User table holds exactly one row per externalId:
\* no two rows share an externalId, and every externalId a call returned a
\* user for has exactly one row.
C1_OneUserPerExternalId ==
    /\ \A u, v \in UserIds :
          users[u].externalId = users[v].externalId => u = v
    /\ \A i \in 1..Len(log) :
          log[i].id # 0 =>
              Cardinality(UsersByExternalId(log[i].externalId)) = 1

\* two first contacts with the same externalId overlapped in time: the
\* later one to commit started before the earlier one returned, found no
\* row, and its insert met the row the other had created
C1_Witness ==
    \E i, j \in 1..Len(log) :
        /\ i < j
        /\ log[j].startSeq < i
        /\ log[i].externalId = log[j].externalId
        /\ log[i].email = "created"
        /\ log[j].email = "rejected"
        /\ Cardinality(UsersByExternalId(log[i].externalId)) = 1

\* C2 as stated: two calls with the same externalId, the second made after
\* the first returned, return the same User id, and last-seen stored by the
\* second is strictly greater than last-seen stored by the first.
C2_LastSeenStrictlyIncreases ==
    \A i, j \in 1..Len(log) :
        (/\ Sequential(i, j)
         /\ log[i].externalId = log[j].externalId
         /\ log[i].id # 0
         /\ log[j].id # 0)
        => /\ log[i].id = log[j].id
           /\ log[j].seen > log[i].seen

\* C2 amended: two calls with the same externalId, the second made after
\* the first returned, return the same User id, and last-seen stored by the
\* second is not less than last-seen stored by the first (it is equal when
\* both calls fall into the same millisecond).
C2_SameIdLastSeenNotDecreasing ==
    \A i, j \in 1..Len(log) :
        (/\ Sequential(i, j)
         /\ log[i].externalId = log[j].externalId
         /\ log[i].id # 0
         /\ log[j].id # 0)
        => /\ log[i].id = log[j].id
           /\ log[j].seen >= log[i].seen

\* two calls in sequence for one externalId, the clock having advanced
\* between them
C2_Witness ==
    \E i, j \in 1..Len(log) :
        /\ Sequential(i, j)
        /\ log[i].externalId = log[j].externalId
        /\ log[i].id # 0
        /\ log[i].id = log[j].id
        /\ log[j].seen > log[i].seen

\* the write step of process p updates an existing row
UpdatesExisting(p) ==
    /\ req[p].at = "userWrite"
    /\ req'[p] = Idle
    /\ req[p].found # 0

Owns(u, m) ==
    /\ m \in 1..Len(messages)
    /\ \E c \in 1..Len(conversations) :
          messages[m].conversationId = c /\ conversations[c].userId = u

OverlayRows == BagToSet(hidden) \cup BagToSet(pinned)

\* C4: every HiddenMessage row and every PinnedMessage row of a user
\* references a message of a conversation that user owns
C4_OverlayRowsReferenceOwnMessages ==
    \A row \in OverlayRows : Owns(row[1], row[2])

\* process p sends its response in this step
Responds(p) == req[p] # Idle /\ req'[p] = Idle

C6_MessagesAppendOnly ==
    [][/\ Len(messages') >= Len(messages)
       /\ \A m \in 1..Len(messages) : messages'[m] = messages[m]]_vars

\* a message appended after the seed, with a hide and a pin recorded
C6_Witness ==
    /\ Len(messages) > Len(SeedMessages)
    /\ hidden # EmptyBag
    /\ pinned # EmptyBag

\* p is at the given step of a hide request of account-message.js
HideAt(p, at) ==
    req[p].at = at /\ req[p].h = "account-message" /\ req[p].action = "delete"

\* C7: hiding is idempotent: a hide of a pair already hidden sees the row,
\* answers success and leaves the table as it was; no pair ever has more
\* than one HiddenMessage row
C7_HideTwiceKeepsOneRow ==
    [][/\ \A row \in BagToSet(hidden') : hidden'[row] = 1
       /\ \A p \in Procs :
             /\ (HideAt(p, "upsertFind") /\ req'[p].at = "upsertWrite"
                   /\ Rows(hidden, req[p].user, req[p].messageId) = 1)
                => req'[p].found
             /\ (HideAt(p, "upsertWrite") /\ req[p].found /\ Responds(p)
                   /\ ~resp'.thrown)
                => /\ resp'.ok
                   /\ resp'.status = 200
                   /\ hidden' = hidden
                   /\ Rows(hidden', req[p].user, req[p].messageId) = 1]_vars

\* the second hide of a pair answered with success, one row stored
C7_Witness ==
    /\ resp.kind = "overlay"
    /\ resp.action = "delete"
    /\ resp.ok
    /\ resp.found
    /\ Rows(hidden, resp.user, resp.messageId) = 1

\* p answers a request `action` of account-message.js with success
Succeeds(p, action) ==
    /\ req[p].at # "idle"
    /\ req[p].h = "account-message"
    /\ req[p].action = action
    /\ Responds(p)
    /\ resp'.ok

\* C8: no pair ever has more than one PinnedMessage row; a successful pin
\* leaves exactly one row of the pair and a successful unpin none, so
\* pin, unpin, pin leaves exactly one
C8_PinUnpinPinKeepsOneRow ==
    [][/\ \A row \in BagToSet(pinned') : pinned'[row] = 1
       /\ \A p \in Procs :
             /\ Succeeds(p, "pin")
                => Rows(pinned', req[p].user, req[p].messageId) = 1
             /\ Succeeds(p, "unpin")
                => Rows(pinned', req[p].user, req[p].messageId) = 0]_vars

\* a pair whose row was inserted twice (pin, unpin, pin) and is stored once
C8_Witness ==
    \E row \in BagToSet(pinSeq) :
       /\ pinSeq[row] = 2
       /\ Rows(pinned, row[1], row[2]) = 1
       /\ resp.kind = "overlay" /\ resp.action = "pin" /\ resp.ok

\* p is at the ownership check of account-message.js and leaves it
ChecksOwnership(p) ==
    /\ req[p].at = "message"
    /\ req[p].h = "account-message"
    /\ req'[p] # req[p]

Reply(r) == <<r.status, r.ok, r.reason>>

\* what account-message.js answers when no message has the id
NotFoundReply == <<200, FALSE, "message_not_found">>

Fragments ==
    {PROGRESS_JSON_TAG_START, PROGRESS_JSON_TAG_END, <<"{", "}">>, <<"{">>,
     <<"0">>, <<" ">>, <<"x">>, <<"[", "[">>, <<"]", "]">>}

RECURSIVE Concat(_)
Concat(fs) == IF fs = << >> THEN << >> ELSE Head(fs) \o Concat(Tail(fs))

Replies ==
    {Concat(fs) : fs \in UNION {[1..n -> Fragments] : n \in 0..MaxFrags}}

\* String.prototype.substring(a, b): characters a .. b-1, the arguments
\* swapped when a > b
Substring(text, a, b) ==
    IF a <= b THEN SubSeq(text, a + 1, b) ELSE SubSeq(text, b + 1, a)

\* String.prototype.slice(a, b) and slice(a), 0 <= a
Slice(text, a, b) == SubSeq(text, a + 1, b)
SliceFrom(text, a) == SubSeq(text, a + 1, Len(text))

\* String.prototype.trim
RECURSIVE TrimStart(_)
TrimStart(text) ==
    IF text # << >> /\ IsSpace(Head(text)) THEN TrimStart(Tail(text))
    ELSE text

RECURSIVE TrimEnd(_)
TrimEnd(text) ==
    IF text # << >> /\ IsSpace(text[Len(text)])
    THEN TrimEnd(SubSeq(text, 1, Len(text) - 1))
    ELSE text

Trim(text) == TrimEnd(TrimStart(text))

\* JSON.parse over the characters of Fragments: the number 0, the empty
\* object, and arrays of at most one value (there is no comma and no
\* quote); anything else is a SyntaxError
RECURSIVE JsonValid(_)
JsonValid(text) ==
    LET t == Trim(text)
        inner == SubSeq(t, 2, Len(t) - 1)
    IN  \/ t = <<"0">>
        \/ /\ Len(t) >= 2
           /\ t[1] = "{" /\ t[Len(t)] = "}"
           /\ Trim(inner) = << >>
        \/ /\ Len(t) >= 2
           /\ t[1] = "[" /\ t[Len(t)] = "]"
           /\ (Trim(inner) = << >> \/ JsonValid(inner))

RECURSIVE JsonParse(_)
JsonParse(text) ==
    LET t == Trim(text)
        inner == SubSeq(t, 2, Len(t) - 1)
    IN  IF t = <<"0">> THEN [json |-> "number", value |-> 0]
        ELSE IF t[1] = "{" THEN [json |-> "object"]
        ELSE [json |-> "array",
              items |-> IF Trim(inner) = << >> THEN << >>
                        ELSE <<JsonParse(inner)>>]

\* the JavaScript value null
Null == [json |-> "null"]

\* the order of the two markers not looked at
NoMarkerBlock_Unordered(start, end) == start = -1 \/ end = -1

\* if (start === -1 || end === -1 || end <= start)
NoMarkerBlock(start, end) == start = -1 \/ end = -1 \/ end <= start

extractProgressEventFromReply(text) ==
    IF text = << >>
    THEN [cleanedText |-> text, event |-> Null]
    ELSE
    LET start == IndexOf(text, PROGRESS_JSON_TAG_START)
        end == IndexOf(text, PROGRESS_JSON_TAG_END)
    IN  IF NoMarkerBlock(start, end)
        THEN [cleanedText |-> text, event |-> Null]
        ELSE
        LET jsonRaw ==
               Trim(Substring(text, start + Len(PROGRESS_JSON_TAG_START),
                              end))
            payload == IF jsonRaw # << >> /\ JsonValid(jsonRaw)
                       THEN JsonParse(jsonRaw)
                       ELSE Null
            cleanedText ==
               Trim(Slice(text, 0, start)
                    \o SliceFrom(text, end + Len(PROGRESS_JSON_TAG_END)))
        IN  [cleanedText |-> IF cleanedText # << >> THEN cleanedText
                             ELSE text,
             event |-> payload]

\* const extracted = extractProgressEventFromReply(reply)
Extract ==
    /\ ~exOut.done
    /\ exOut' = [done |-> TRUE] @@ extractProgressEventFromReply(exText)
    /\ UNCHANGED <<dbVars, pinSeq, now, req, resp, started, log, exText,
                   turnVars>>

InitExtract ==
    /\ users = << >>
    /\ conversations = << >>
    /\ messages = << >>
    /\ hidden = EmptyBag
    /\ pinned = EmptyBag
    /\ pinSeq = EmptyBag
    /\ now = 0
    /\ req = [p \in Procs |-> Idle]
    /\ resp = NoResp
    /\ started = 0
    /\ log = << >>
    /\ exText \in Replies
    /\ exOut = [done |-> FALSE]
    /\ uploads = << >>
    /\ events = << >>

NextExtract == Extract

SpecExtract == InitExtract /\ [][NextExtract]_vars

(***************************************************************************)
(* unnamed/part_011: the chat handler.  One action per await: the user     *)
(* upsert, the conversation lookup and create, the upload insert, the two  *)
(* message inserts, the model call and the ProgressEvent insert.  A        *)
(* storage call may throw at any of them.                                  *)
(***************************************************************************)
\* body.workflow: absent, one that maps to a progress type, one that does
\* not
Workflows == {None, "food_scan", "chat"}

\* a conversation id no row has
UnknownConversationId == 98

\* JavaScript truthiness of a parsed JSON value
Truthy(value) == value # Null /\ value # [json |-> "number", value |-> 0]

\* the workflow stored as it came
ProgressType_Workflow(workflow) == workflow

\* workflow -> progressType
ProgressType(workflow) ==
    CASE workflow = "food_scan" -> "meal_log"
      [] workflow = "body_scan" -> "body_scan"
      [] workflow = "fitness_plan" -> "workout_plan"
      [] OTHER -> None

\* the payload not looked at
StoresProgressEvent_AnyPayload(payload, user, workflow) ==
    user # 0 /\ workflow # None /\ ProgressType(workflow) # None

\* if (progressPayload && user && workflow) .. if (progressType)
StoresProgressEvent(payload, user, workflow) ==
    /\ Truthy(payload)
    /\ user # 0
    /\ workflow # None
    /\ ProgressType(workflow) # None

\* res.status(200).json({ reply, conversationId, userExternalId }) and the
\* error bodies of the chat handlers
ChatReply(status, r, reply) ==
    [kind |-> "chat", status |-> status, reply |-> reply,
     conversationId |-> r.conversation, turn |-> r.turn]

\* a new chat request; chat turns are served one at a time
ChatBegin(p) ==
    /\ \A q \in Procs : req[q] = Idle
    /\ \A q \in Procs : p <= q
    /\ started < MaxTurns
    /\ started' = started + 1

ChatRequest(h, at, turn, message, attachments, workflow, id, externalId) ==
    [h |-> h, at |-> at, turn |-> turn, message |-> message,
     attachments |-> attachments, workflow |-> workflow,
     conversationId |-> id, externalId |-> externalId,
     user |-> 0, conversation |-> 0, userRow |-> 0, reply |-> << >>,
     assistantRow |-> 0, lookupThrew |-> FALSE]

ChatInputs(h, at, turn) ==
    {ChatRequest(h, at, turn, message, attachments, workflow, conversationId,
                 IF externalId = None THEN GuestExternalId(turn)
                 ELSE externalId) :
        message \in {ChatMessage, << >>}, attachments \in {0, 1},
        workflow \in Workflows,
        conversationId \in {0, 1, UnknownConversationId},
        externalId \in {"shopify:1", None}}

\* body parsed; if (!message && !attachments.length) -> 400
Chat_Call(p) ==
    /\ ChatBegin(p)
    /\ \E r \in ChatInputs("chat", "user", started + 1) :
          IF r.message = << >> /\ r.attachments = 0
          THEN Respond(p, ChatReply(400, r, << >>))
          ELSE /\ req' = [req EXCEPT ![p] = r]
               /\ UNCHANGED resp
    /\ UNCHANGED <<dbVars, pinSeq, now, log, exVars, turnVars>>

\* the handler of process p goes on with the given locals changed
ChatGoto(p, r) ==
    /\ req' = [req EXCEPT ![p] = r]
    /\ UNCHANGED resp

\* db.user.upsert(..) as one statement: the row with the external id gets
\* a new lastSeenAt, or a row is created
UpsertUser(externalId) ==
    IF UsersByExternalId(externalId) # {}
    THEN LET u == CHOOSE u \in UsersByExternalId(externalId) : TRUE
         IN  [id |-> u,
              rows |-> [users EXCEPT ![u].lastSeenAt = LastSeenForUpdate(now)]]
    ELSE [id |-> Len(users) + 1,
          rows |-> Append(users, [externalId |-> externalId, email |-> None,
                                  lastSeenAt |-> now])]

\* const user = await getOrCreateUser({ externalId, email }): not in a try
\* block, a throw reaches the top-level catch
Chat_User(p) ==
    /\ req[p].at = "user"
    /\ req[p].h = "chat"
    /\ LET r == req[p]
           w == UpsertUser(r.externalId)
       IN  \/ /\ Respond(p, ChatReply(500, r, << >>))
              /\ users' = users
           \/ /\ users' = w.rows
              /\ ChatGoto(p, [r EXCEPT !.user = w.id,
                                       !.at = IF r.conversationId # 0
                                              THEN "conversationFind"
                                              ELSE "conversationCreate"])
    /\ UNCHANGED <<conversations, messages, hidden, pinned, pinSeq, now,
                   started, log, exVars, turnVars>>

\* where the handler goes once it has its conversation
AfterConversation(r) == IF r.attachments > 0 THEN "uploads" ELSE "userMessage"

ConversationFindUnique_NeverFinds(id) == {}

\* db.conversation.findUnique({ where: { id } }): the row with the id, if any
ConversationFindUnique(id) == {c \in ConversationIds : c = id}

\* existing = await db.conversation.findUnique({ where: { id } }) in a try
\* block: a throw is logged and the handler goes on to create
Chat_ConversationFind(p) ==
    /\ req[p].at = "conversationFind"
    /\ req[p].h = "chat"
    /\ LET r == req[p]
           existing == ConversationFindUnique(r.conversationId)
       IN  \/ ChatGoto(p, [r EXCEPT !.at = "conversationCreate",
                                    !.lookupThrew = TRUE])
           \/ /\ existing # {}
              /\ \E c \in existing :
                    ChatGoto(p, [r EXCEPT !.conversation = c,
                                          !.at = AfterConversation(r)])
           \/ /\ existing = {}
              /\ ChatGoto(p, [r EXCEPT !.at = "conversationCreate"])
    /\ UNCHANGED <<dbVars, pinSeq, now, started, log, exVars, turnVars>>

\* convo = await db.conversation.create(..): not in a try block
Chat_ConversationCreate(p) ==
    /\ req[p].at = "conversationCreate"
    /\ req[p].h = "chat"
    /\ LET r == req[p]
       IN  \/ /\ Respond(p, ChatReply(500, r, << >>))
              /\ conversations' = conversations
           \/ /\ conversations' = Append(conversations,
                                        NewConversation(r.user, now))
              /\ ChatGoto(p, [r EXCEPT !.conversation = Len(conversations) + 1,
                                       !.at = AfterConversation(r)])
    /\ UNCHANGED <<users, messages, hidden, pinned, pinSeq, now, started, log,
                   exVars, turnVars>>

\* await saveUploads(..) in a try block
Chat_Uploads(p) ==
    /\ req[p].at = "uploads"
    /\ req[p].h = "chat"
    /\ LET r == req[p]
       IN  /\ \/ uploads' = uploads
              \/ uploads' = Append(uploads, [userId |-> r.user,
                                             conversationId |-> r.conversation,
                                             turn |-> r.turn,
                                             createdAt |-> now])
           /\ ChatGoto(p, [r EXCEPT !.at = "userMessage"])
    /\ UNCHANGED <<dbVars, pinSeq, now, started, log, exVars, events>>

\* message || (attachments.length ? "[attachments]" : "")
RawUserContentForDB(r) ==
    IF r.message # << >> THEN r.message
    ELSE AttachmentsOnly

\* await saveMessage({ conversation, user, role: "user", .. }) in a try
\* block
Chat_UserMessage(p) ==
    /\ req[p].at = "userMessage"
    /\ req[p].h = "chat"
    /\ LET r == req[p]
       IN  \/ /\ messages' = messages
              /\ ChatGoto(p, [r EXCEPT !.at = "model"])
           \/ /\ messages' = SaveMessageRows(r.conversation, r.user, "user",
                                             RawUserContentForDB(r))
              /\ ChatGoto(p, [r EXCEPT !.userRow = Len(messages) + 1,
                                       !.at = "model"])
    /\ UNCHANGED <<users, conversations, hidden, pinned, pinSeq, now, started,
                   log, exVars, turnVars>>

\* completion = await client.chat.completions.create(..): a throw reaches
\* the top-level catch
Chat_Model(p) ==
    /\ req[p].at = "model"
    /\ req[p].h = "chat"
    /\ LET r == req[p]
       IN  \/ Respond(p, ChatReply(500, r, << >>))
           \/ \E reply \in ChatReplies :
                 ChatGoto(p, [r EXCEPT !.reply = reply,
                                       !.at = "assistantMessage"])
    /\ UNCHANGED <<dbVars, pinSeq, now, started, log, exVars, turnVars>>

\* extraction; assistantMessageRow = await saveMessage(..) in a try block;
\* then the response, unless a ProgressEvent is to be stored first
Chat_AssistantMessage(p) ==
    /\ req[p].at = "assistantMessage"
    /\ req[p].h = "chat"
    /\ LET r == req[p]
           extracted == extractProgressEventFromReply(r.reply)
       IN  \E saved \in BOOLEAN :
              /\ saved => extracted.cleanedText # << >>
              /\ messages' = IF saved
                             THEN SaveMessageRows(r.conversation, 0,
                                                  "assistant",
                                                  extracted.cleanedText)
                             ELSE messages
              /\ IF StoresProgressEvent(extracted.event, r.user, r.workflow)
                 THEN ChatGoto(p, [r EXCEPT
                                     !.assistantRow =
                                        IF saved THEN Len(messages) + 1 ELSE 0,
                                     !.at = "progressEvent"])
                 ELSE Respond(p, ChatReply(200, r, extracted.cleanedText))
    /\ UNCHANGED <<users, conversations, hidden, pinned, pinSeq, now, started,
                   log, exVars, turnVars>>

\* await saveProgressEvent(..): the insert in a try block of its own; then
\* the response
Chat_ProgressEvent(p) ==
    /\ req[p].at = "progressEvent"
    /\ req[p].h = "chat"
    /\ LET r == req[p]
           extracted == extractProgressEventFromReply(r.reply)
       IN  /\ \/ events' = events
              \/ events' = Append(events,
                                  [userId |-> r.user,
                                   conversationId |-> r.conversation,
                                   messageId |-> r.assistantRow,
                                   type |-> ProgressType(r.workflow),
                                   payload |-> extracted.event,
                                   turn |-> r.turn])
           /\ Respond(p, ChatReply(200, r, extracted.cleanedText))
    /\ UNCHANGED <<dbVars, pinSeq, now, started, log, exVars, uploads>>

NextChat ==
    \/ \E p \in Procs : Chat_Call(p)
    \/ \E p \in Procs : Chat_User(p)
    \/ \E p \in Procs : Chat_ConversationFind(p)
    \/ \E p \in Procs : Chat_ConversationCreate(p)
    \/ \E p \in Procs : Chat_Uploads(p)
    \/ \E p \in Procs : Chat_UserMessage(p)
    \/ \E p \in Procs : Chat_Model(p)
    \/ \E p \in Procs : Chat_AssistantMessage(p)
    \/ \E p \in Procs : Chat_ProgressEvent(p)

SpecChat == Init /\ [][NextChat]_vars

(***************************************************************************)
(* SpecEndToEnd: chat turns of unnamed/part_011 followed by one dashboard  *)
(* request of api/exerbud-account.js, one request at a time.               *)
(***************************************************************************)
\* the dashboard is opened once the chat turns are over
EndToEnd_AccountCall(p) ==
    /\ \A q \in Procs : req[q] = Idle
    /\ started = MaxTurns
    /\ Account_Call(p)

NextEndToEnd ==
    \/ NextChat
    \/ \E p \in Procs : EndToEnd_AccountCall(p)
    \/ \E p \in Procs : Account_Probe(p)
    \/ \E p \in Procs : Account_Count(p)
    \/ \E p \in Procs : Account_FindMany(p)

SpecEndToEnd == Init /\ [][NextEndToEnd]_vars

(***************************************************************************)
(* unnamed/part_012: the chat handler with optional memory.  The model is  *)
(* called first; the user, the conversation and both messages are stored   *)
(* afterwards inside one try block, whose catch only logs.                 *)
(***************************************************************************)
\* the rows a conversation id names: the row's own id, or the id a client
\* supplied when the row was created by  upsert({ create: { id } })
ConversationsById(id) ==
    {c \in ConversationIds :
        \/ c = id
        \/ "suppliedId" \in DOMAIN conversations[c]
           /\ conversations[c].suppliedId = id}

\* body parsed; if (!message && !attachments.length) -> 400
ChatMemory_Call(p) ==
    /\ ChatBegin(p)
    /\ \E r \in ChatInputs("chatMemory", "model", started + 1) :
          IF r.message = << >> /\ r.attachments = 0
          THEN Respond(p, ChatReply(400, r, << >>))
          ELSE /\ req' = [req EXCEPT ![p] = r]
               /\ UNCHANGED resp
    /\ UNCHANGED <<dbVars, pinSeq, now, log, exVars, turnVars>>

\* completion = await client.chat.completions.create(..): a throw reaches
\* the top-level catch
ChatMemory_Model(p) ==
    /\ req[p].at = "model"
    /\ req[p].h = "chatMemory"
    /\ LET r == req[p]
       IN  \/ Respond(p, ChatReply(500, r, << >>))
           \/ \E reply \in ChatReplies :
                 ChatGoto(p, [r EXCEPT !.reply = reply, !.at = "user"])
    /\ UNCHANGED <<dbVars, pinSeq, now, started, log, exVars, turnVars>>

\* const user = await prisma.user.upsert(..): update: { email: userEmail ||
\* undefined } leaves the row of a request without email as it is
ChatMemory_User(p) ==
    /\ req[p].at = "user"
    /\ req[p].h = "chatMemory"
    /\ LET r == req[p]
           w == UpsertUser(r.externalId)
       IN  \/ /\ Respond(p, ChatReply(200, r, r.reply))
              /\ users' = users
           \/ /\ users' = IF w.id \in UserIds THEN users ELSE w.rows
              /\ ChatGoto(p, [r EXCEPT !.user = w.id, !.at = "conversation"])
    /\ UNCHANGED <<conversations, messages, hidden, pinned, pinSeq, now,
                   started, log, exVars, turnVars>>

\* conversationRecord = await prisma.conversation.upsert(..) when an id
\* was supplied, prisma.conversation.create(..) otherwise
ChatMemory_Conversation(p) ==
    /\ req[p].at = "conversation"
    /\ req[p].h = "chatMemory"
    /\ LET r == req[p]
           next == IF r.message # << >> THEN "userMessage"
                   ELSE "assistantMessage"
           found == ConversationsById(r.conversationId)
       IN  \/ /\ Respond(p, ChatReply(200, r, r.reply))
              /\ conversations' = conversations
           \/ /\ r.conversationId # 0
              /\ found # {}
              /\ conversations' = conversations
              /\ \E c \in found :
                    ChatGoto(p, [r EXCEPT !.conversation = c, !.at = next])
           \/ /\ r.conversationId # 0
              /\ found = {}
              /\ conversations' =
                    Append(conversations, [userId |-> r.user, createdAt |-> now,
                                           archived |-> FALSE,
                                           suppliedId |-> r.conversationId])
              /\ ChatGoto(p, [r EXCEPT !.conversation = Len(conversations) + 1,
                                       !.at = next])
           \/ /\ r.conversationId = 0
              /\ conversations' = Append(conversations,
                                        NewConversation(r.user, now))
              /\ ChatGoto(p, [r EXCEPT !.conversation = Len(conversations) + 1,
                                       !.at = next])
    /\ UNCHANGED <<users, messages, hidden, pinned, pinSeq, now, started, log,
                   exVars, turnVars>>

\* if (message) await prisma.message.create({ .. role: "user" .. })
ChatMemory_UserMessage(p) ==
    /\ req[p].at = "userMessage"
    /\ req[p].h = "chatMemory"
    /\ LET r == req[p]
       IN  \/ /\ Respond(p, ChatReply(200, r, r.reply))
              /\ messages' = messages
           \/ /\ messages' = SaveMessageRows(r.conversation, r.user, "user",
                                             r.message)
              /\ ChatGoto(p, [r EXCEPT !.userRow = Len(messages) + 1,
                                       !.at = "assistantMessage"])
    /\ UNCHANGED <<users, conversations, hidden, pinned, pinSeq, now, started,
                   log, exVars, turnVars>>

\* await prisma.message.create({ .. role: "assistant" .. }); the response
ChatMemory_AssistantMessage(p) ==
    /\ req[p].at = "assistantMessage"
    /\ req[p].h = "chatMemory"
    /\ LET r == req[p]
       IN  /\ \/ messages' = messages
              \/ messages' = SaveMessageRows(r.conversation, 0, "assistant",
                                             r.reply)
           /\ Respond(p, ChatReply(200, r, r.reply))
    /\ UNCHANGED <<users, conversations, hidden, pinned, pinSeq, now, started,
                   log, exVars, turnVars>>

NextChatMemory ==
    \/ \E p \in Procs : ChatMemory_Call(p)
    \/ \E p \in Procs : ChatMemory_Model(p)
    \/ \E p \in Procs : ChatMemory_User(p)
    \/ \E p \in Procs : ChatMemory_Conversation(p)
    \/ \E p \in Procs : ChatMemory_UserMessage(p)
    \/ \E p \in Procs : ChatMemory_AssistantMessage(p)

SpecChatMemory == Init /\ [][NextChatMemory]_vars

(***************************************************************************)
(* lib/exerbudPersistence.js: getOrCreateConversation with its reuse       *)
(* window, and saveMessages.  The clock counts in units of the default     *)
(* window: one tick is reuseWindowMinutes = 60 minutes.                    *)
(***************************************************************************)
reuseWindowMinutes == 1

\* where: { userId, createdAt: { gte: since }, archived: false }
ReusableSince(userId, since) ==
    {c \in ConversationIds : /\ conversations[c].userId = userId
                             /\ conversations[c].createdAt >= since
                             /\ ~conversations[c].archived}

\* orderBy: { createdAt: 'desc' }: the rows findFirst may return, any of
\* the newest when several share a start time
MostRecent(rows) ==
    {c \in rows :
        \A d \in rows : conversations[d].createdAt <= conversations[c].createdAt}

CreatedConversation_NoOwner(userId, t) == NewConversation(0, t)

\* data: { userId, workflow, title: null }
CreatedConversation(userId, t) == NewConversation(userId, t)

\* the conversation id a batch of messages is stored under
MessagesTarget(conversationId) == conversationId

\* a caller resolves a conversation for a user row it holds;
\* since = new Date(Date.now() - reuseWindowMinutes * 60 * 1000)
Reuse_Call(p) ==
    /\ Begin(p)
    /\ \E u \in UserIds :
          req' = [req EXCEPT ![p] =
                     [h |-> "resolve", at |-> "findFirst", user |-> u,
                      since |-> now - reuseWindowMinutes, conversation |-> 0,
                      created |-> FALSE]]
    /\ UNCHANGED <<dbVars, pinSeq, now, resp, log, exVars, turnVars>>

\* what the library's caller gets back
Resolved(r, ok, saved) ==
    [kind |-> "resolved", ok |-> ok, user |-> r.user,
     conversation |-> r.conversation, created |-> r.created, saved |-> saved]

\* existing = await prisma.conversation.findFirst(..);
\* if (existing) return existing;  a throw rejects the caller's await
Reuse_FindFirst(p) ==
    /\ req[p].at = "findFirst"
    /\ req[p].h = "resolve"
    /\ LET r == req[p]
           existing == MostRecent(ReusableSince(r.user, r.since))
       IN  \/ Respond(p, Resolved(r, FALSE, 0))
           \/ /\ existing # {}
              /\ \E c \in existing :
                    ChatGoto(p, [r EXCEPT !.conversation = c,
                                          !.at = "saveMessages"])
           \/ /\ existing = {}
              /\ ChatGoto(p, [r EXCEPT !.at = "create"])
    /\ UNCHANGED <<dbVars, pinSeq, now, started, log, exVars, turnVars>>

\* return prisma.conversation.create({ data: { userId, workflow, .. } })
Reuse_Create(p) ==
    /\ req[p].at = "create"
    /\ req[p].h = "resolve"
    /\ LET r == req[p]
       IN  \/ /\ Respond(p, Resolved(r, FALSE, 0))
              /\ conversations' = conversations
           \/ /\ conversations' =
                    Append(conversations, CreatedConversation(r.user, now))
              /\ ChatGoto(p, [r EXCEPT !.conversation = Len(conversations) + 1,
                                       !.created = TRUE,
                                       !.at = "saveMessages"])
    /\ UNCHANGED <<users, messages, hidden, pinned, pinSeq, now, started, log,
                   exVars, turnVars>>

\* saveMessages({ conversationId, messages }): nothing is written for an
\* empty list, else prisma.message.createMany(..) stores the batch; the
\* store rejects a row whose conversation does not exist
Reuse_SaveMessages(p) ==
    /\ req[p].at = "saveMessages"
    /\ req[p].h = "resolve"
    /\ LET r == req[p]
       IN  \/ /\ Respond(p, Resolved(r, TRUE, 0))
              /\ messages' = messages
           \/ /\ Respond(p, Resolved(r, FALSE, 0))
              /\ messages' = messages
           \/ /\ messages' =
                    Append(messages,
                           [conversationId |-> MessagesTarget(r.conversation),
                            role |-> "user", content |-> <<"t", "e", "x", "t">>,
                            workflow |-> None, createdAt |-> now])
              /\ Respond(p, Resolved(r, TRUE, 1))
    /\ UNCHANGED <<users, conversations, hidden, pinned, pinSeq, now, started,
                   log, exVars, turnVars>>

InitReuse ==
    /\ users = SeedUsers
    /\ conversations = SeedConversations
    /\ messages = << >>
    /\ hidden = EmptyBag
    /\ pinned = EmptyBag
    /\ pinSeq = EmptyBag
    /\ now = 0
    /\ req = [p \in Procs |-> Idle]
    /\ resp = NoResp
    /\ started = 0
    /\ log = << >>
    /\ exText = << >>
    /\ exOut = [done |-> FALSE]
    /\ uploads = << >>
    /\ events = << >>

NextReuse ==
    \/ Tick
    \/ \E p \in Procs : Reuse_Call(p)
    \/ \E p \in Procs : Reuse_FindFirst(p)
    \/ \E p \in Procs : Reuse_Create(p)
    \/ \E p \in Procs : Reuse_SaveMessages(p)

SpecReuse == InitReuse /\ [][NextReuse]_vars

(***************************************************************************)
(* SpecWeekly: the last account summary of a session, over a ledger of     *)
(* assistant replies of the last days, with or without stored              *)
(* ProgressEvent rows.                                                     *)
(***************************************************************************)
MaxWeekly == 2

\* the clock of the summaries, and the creation times of the stored rows:
\* before the window, on its edge, two on one day, one on the next
WeeklyNow == 320
WeeklyTimes == {WeeklyNow - WindowDays * TicksPerDay - 1,
                WeeklyNow - WindowDays * TicksPerDay,
                WeeklyNow - 2, WeeklyNow - 1, WeeklyNow}

WeeklyRows ==
    {[conversationId |-> 1, userId |-> 1, role |-> "assistant",
      content |-> c, createdAt |-> t] : c \in WeeklyContents, t \in WeeklyTimes}
    \cup {[conversationId |-> 1, userId |-> 1, role |-> "user",
           content |-> c, createdAt |-> WeeklyNow] : c \in WeeklyContents}
    \cup {[conversationId |-> 2, userId |-> 2, role |-> "assistant",
           content |-> c, createdAt |-> WeeklyNow] : c \in WeeklyContents}

\* the ProgressEvent rows four food scans of user 1 leave: 400, 600 and
\* 500 kcal on one day and 300 kcal on the next
MealLog(calories, t) ==
    [userId |-> 1, conversationId |-> 1, messageId |-> 0,
     type |-> "meal_log", payload |-> [calories |-> calories],
     createdAt |-> t]
WeeklyEvents ==
    <<MealLog(400, WeeklyNow - 2), MealLog(600, WeeklyNow - 2),
      MealLog(500, WeeklyNow - 1), MealLog(300, WeeklyNow)>>

InitWeekly ==
    /\ users = SeedUsers
    /\ conversations = SeedConversations
    /\ \E n \in 0..MaxWeekly : messages \in [1..n -> WeeklyRows]
    /\ hidden = EmptyBag
    /\ pinned = EmptyBag
    /\ pinSeq = EmptyBag
    /\ now = WeeklyNow
    /\ req = [p \in Procs |-> Idle]
    /\ resp = NoResp
    /\ started = MaxReqs - 1
    /\ log = << >>
    /\ exText = << >>
    /\ exOut = [done |-> FALSE]
    /\ uploads = << >>
    /\ events \in {<< >>, WeeklyEvents}

NextWeekly ==
    \/ \E p \in Procs : Account_Call(p)
    \/ \E p \in Procs : Account_Probe(p)
    \/ \E p \in Procs : Account_Count(p)
    \/ \E p \in Procs : Account_FindMany(p)

SpecWeekly == InitWeekly /\ [][NextWeekly]_vars

(***************************************************************************)
(* SpecBacklog: the account summary of a user who wrote much during the    *)
(* week: `take` messages or one fewer, all newer than at most MaxBacklog   *)
(* assistant replies of the same week.                                     *)
(***************************************************************************)
MaxBacklog == 1

\* the k-th reply of the week, just inside the window
BacklogReply(content, k) ==
    [conversationId |-> 1, userId |-> 0, role |-> "assistant",
     content |-> content, createdAt |-> WeekAgo(WeeklyNow) + k]

\* the j-th of n later messages of the user, one per tick up to the clock
LaterMessage(n, j) ==
    [conversationId |-> 1, userId |-> 1, role |-> "user",
     content |-> ChatMessage, createdAt |-> WeeklyNow - n + j]

InitBacklog ==
    /\ users = SeedUsers
    /\ conversations = SeedConversations
    /\ \E k \in 0..MaxBacklog, n \in {take - 1, take} :
          \E replies \in [1..k -> WeeklyContents] :
             messages = [i \in 1..k |-> BacklogReply(replies[i], i)]
                        \o [j \in 1..n |-> LaterMessage(n, j)]
    /\ hidden = EmptyBag
    /\ pinned = EmptyBag
    /\ pinSeq = EmptyBag
    /\ now = WeeklyNow
    /\ req = [p \in Procs |-> Idle]
    /\ resp = NoResp
    /\ started = MaxReqs - 1
    /\ log = << >>
    /\ exText = << >>
    /\ exOut = [done |-> FALSE]
    /\ uploads = << >>
    /\ events = << >>

NextBacklog ==
    \/ \E p \in Procs : Account_Call(p)
    \/ \E p \in Procs : Account_Probe(p)
    \/ \E p \in Procs : Account_Count(p)
    \/ \E p \in Procs : Account_FindMany(p)

SpecBacklog == InitBacklog /\ [][NextBacklog]_vars

(***************************************************************************)
(* unnamed/part_006: the uploads preview of the dashboard.  Each upload is *)
(* linked to a message of its conversation by two lookups in one try       *)
(* block.  SpecLink links one upload of a ledger of at most MaxLinked      *)
(* messages.                                                               *)
(***************************************************************************)
MaxLinked == 2

\* where: { conversationId: u.conversationId, role: "assistant",
\*          createdAt: { gte: u.createdAt } }
AssistantAtOrAfter(u) ==
    {m \in MessageIds : /\ messages[m].conversationId = uploads[u].conversationId
                        /\ messages[m].role = "assistant"
                        /\ messages[m].createdAt >= uploads[u].createdAt}

\* where: { conversationId: u.conversationId,
\*          createdAt: { lte: u.createdAt } }
AnyAtOrBefore(u) ==
    {m \in MessageIds : /\ messages[m].conversationId = uploads[u].conversationId
                        /\ messages[m].createdAt <= uploads[u].createdAt}

\* the row the store returns first
FirstAsc_Desc(rows) ==
    {m \in rows : \A o \in rows : messages[o].createdAt <= messages[m].createdAt}

\* findFirst with orderBy: { createdAt: "asc" }: a row no other row
\* precedes
FirstAsc(rows) ==
    {m \in rows : \A o \in rows : messages[m].createdAt <= messages[o].createdAt}

\* findFirst with orderBy: { createdAt: "desc" }
FirstDesc(rows) ==
    {m \in rows : \A o \in rows : messages[o].createdAt <= messages[m].createdAt}

\* the entry of uploadsPreview for upload u: messageId = msg?.id || null
Linked(u, messageId) == [kind |-> "link", upload |-> u, messageId |-> messageId]

\* catch (e): console.error("[Exerbud] Failed to attach messageId to
\* upload:", ..); messageId stays null
LinkFailed(p) ==
    /\ Respond(p, Linked(req[p].upload, 0))
    /\ log' = Append(log, [error |-> "Failed to attach messageId to upload"])

\* uploads.map(async (u) => ..): if (u.conversationId) guards the lookups
UploadsPreview_Call(p) ==
    /\ Begin(p)
    /\ \E u \in 1..Len(uploads) :
          IF uploads[u].conversationId = 0
          THEN Respond(p, Linked(u, 0))
          ELSE /\ req' = [req EXCEPT ![p] =
                     [h |-> "preview", at |-> "assistantAfter", upload |-> u]]
               /\ UNCHANGED resp
    /\ UNCHANGED <<dbVars, pinSeq, now, log, exVars, turnVars>>

\* msg = await prisma.message.findFirst(..) for the assistant message at
\* or after the upload
UploadsPreview_AssistantAfter(p) ==
    /\ req[p].at = "assistantAfter"
    /\ req[p].h = "preview"
    /\ LET rows == AssistantAtOrAfter(req[p].upload)
       IN  \/ LinkFailed(p)
           \/ /\ \E m \in FirstAsc(rows) : Respond(p, Linked(req[p].upload, m))
              /\ UNCHANGED log
           \/ /\ rows = {}
              /\ Goto(p, "anyBefore", [upload |-> req[p].upload])
              /\ UNCHANGED log
    /\ UNCHANGED <<dbVars, pinSeq, now, started, exVars, turnVars>>

\* if (!msg) msg = await prisma.message.findFirst(..) for the message at
\* or before the upload
UploadsPreview_AnyBefore(p) ==
    /\ req[p].at = "anyBefore"
    /\ req[p].h = "preview"
    /\ LET rows == AnyAtOrBefore(req[p].upload)
       IN  \/ LinkFailed(p)
           \/ /\ \E m \in FirstDesc(rows) : Respond(p, Linked(req[p].upload, m))
              /\ UNCHANGED log
           \/ /\ rows = {}
              /\ Respond(p, Linked(req[p].upload, 0))
              /\ UNCHANGED log
    /\ UNCHANGED <<dbVars, pinSeq, now, started, exVars, turnVars>>

\* the messages and the upload of the ledgers of SpecLink: either
\* conversation, either role, any instant of the clock; the upload may
\* have no conversation
LinkRows ==
    {[conversationId |-> c, userId |-> IF role = "user" THEN c ELSE 0,
      role |-> role, content |-> ChatMessage, createdAt |-> t] :
        c \in 1..Len(SeedConversations), role \in Roles, t \in 0..MaxClock}
LinkUploads ==
    {[userId |-> 1, conversationId |-> c, turn |-> 1, createdAt |-> t] :
        c \in 0..Len(SeedConversations), t \in 0..MaxClock}

InitLink ==
    /\ users = SeedUsers
    /\ conversations = SeedConversations
    /\ \E n \in 0..MaxLinked : messages \in [1..n -> LinkRows]
    /\ hidden = EmptyBag
    /\ pinned = EmptyBag
    /\ pinSeq = EmptyBag
    /\ now = MaxClock
    /\ req = [p \in Procs |-> Idle]
    /\ resp = NoResp
    /\ started = MaxReqs - 1
    /\ log = << >>
    /\ exText = << >>
    /\ exOut = [done |-> FALSE]
    /\ uploads \in [1..1 -> LinkUploads]
    /\ events = << >>

NextLink ==
    \/ \E p \in Procs : UploadsPreview_Call(p)
    \/ \E p \in Procs : UploadsPreview_AssistantAfter(p)
    \/ \E p \in Procs : UploadsPreview_AnyBefore(p)

SpecLink == InitLink /\ [][NextLink]_vars

(***************************************************************************)
(* Properties of the extractor.                                            *)
(***************************************************************************)
Contains(text, pat) == IndexOf(text, pat) # -1

\* the first start marker of the reply lies before its first end marker
StartBeforeEnd(text) ==
    /\ Contains(text, PROGRESS_JSON_TAG_START)
    /\ Contains(text, PROGRESS_JSON_TAG_END)
    /\ IndexOf(text, PROGRESS_JSON_TAG_START)
          < IndexOf(text, PROGRESS_JSON_TAG_END)

\* C10: for a reply whose start marker comes before its end marker the
\* cleaned text contains neither marker (and so not the marked-up span),
\* whether or not the interior parses
C10_CleanedTextHasNoMarkers ==
    (exOut.done /\ StartBeforeEnd(exText))
    => /\ ~Contains(exOut.cleanedText, PROGRESS_JSON_TAG_START)
       /\ ~Contains(exOut.cleanedText, PROGRESS_JSON_TAG_END)

\* C11: a reply without the start marker, without the end marker, or whose
\* end marker comes before its start marker is returned unchanged, with a
\* null event
C11_PlainReplyReturnedUnchanged ==
    (exOut.done
       /\ (\/ ~Contains(exText, PROGRESS_JSON_TAG_START)
           \/ ~Contains(exText, PROGRESS_JSON_TAG_END)
           \/ IndexOf(exText, PROGRESS_JSON_TAG_END)
                 < IndexOf(exText, PROGRESS_JSON_TAG_START)))
    => /\ exOut.cleanedText = exText
       /\ exOut.event = Null

\* a reply holding both markers, the end marker first, was returned as is
C11_Witness ==
    /\ exOut.done
    /\ Contains(exText, PROGRESS_JSON_TAG_START)
    /\ Contains(exText, PROGRESS_JSON_TAG_END)
    /\ IndexOf(exText, PROGRESS_JSON_TAG_END)
          < IndexOf(exText, PROGRESS_JSON_TAG_START)
    /\ Len(exText) > Len(PROGRESS_JSON_TAG_START) + Len(PROGRESS_JSON_TAG_END)
    /\ exOut.cleanedText = exText

\* the characters between the first start marker and the first end marker
Interior(text) ==
    SubSeq(text,
           IndexOf(text, PROGRESS_JSON_TAG_START)
              + Len(PROGRESS_JSON_TAG_START) + 1,
           IndexOf(text, PROGRESS_JSON_TAG_END))

\* the reply with the span from the start marker through the end marker
\* taken out
WithoutSpan(text) ==
    SubSeq(text, 1, IndexOf(text, PROGRESS_JSON_TAG_START))
    \o SubSeq(text,
              IndexOf(text, PROGRESS_JSON_TAG_END)
                 + Len(PROGRESS_JSON_TAG_END) + 1,
              Len(text))

\* C12: for a reply with a marker block whose interior is valid JSON the
\* event is the parsed interior and the cleaned text is the reply with the
\* whole marker span removed (up to blank space at its ends)
C12_ValidBlockParsedAndRemoved ==
    (exOut.done /\ StartBeforeEnd(exText) /\ JsonValid(Interior(exText)))
    => /\ exOut.event = JsonParse(Interior(exText))
       /\ exOut.cleanedText = Trim(WithoutSpan(exText))

(***************************************************************************)
(* Properties of the chat handler.                                         *)
(***************************************************************************)
\* the reply carries a marker block whose interior parses
HasParsedBlock(reply) ==
    StartBeforeEnd(reply) /\ JsonValid(Interior(reply))

\* C13: handling one reply stores at most one ProgressEvent row, and none
\* unless the reply carries a marker block whose interior parses; a stored
\* row is never changed or removed
C13_AtMostOneEventPerReply ==
    [][/\ Len(events') >= Len(events)
       /\ Len(events') <= Len(events) + 1
       /\ \A i \in 1..Len(events) : events'[i] = events[i]
       /\ \A i, j \in 1..Len(events') :
             i # j => events'[i].turn # events'[j].turn
       /\ Len(events') > Len(events)
          => \E p \in Procs :
                /\ req[p].at = "progressEvent"
                /\ HasParsedBlock(req[p].reply)
                /\ events'[Len(events')].turn = req[p].turn
                /\ Responds(p)]_vars

\* a turn answered with its ProgressEvent stored
C13_Witness ==
    /\ resp.kind = "chat"
    /\ resp.status = 200
    /\ \E i \in 1..Len(events) :
          /\ events[i].turn = resp.turn
          /\ events[i].type = "meal_log"
          /\ events[i].payload = [json |-> "object"]

\* the model call of process p fails and the handler answers with an error
ModelCallFails(p) ==
    /\ req[p].at = "model"
    /\ Responds(p)
    /\ resp'.status = 500

\* C14: the user's message row is committed before the model is invoked:
\* when the model call fails, the message of the request is stored in its
\* conversation
C14_UserMessageStoredBeforeModel ==
    [][\A p \in Procs :
          (ModelCallFails(p) /\ req[p].message # << >>)
          => /\ req[p].userRow \in 1..Len(messages')
             /\ messages'[req[p].userRow].role = "user"
             /\ messages'[req[p].userRow].content = req[p].message]_vars

\* the steps of the chat handler that write to the store
PersistenceSteps ==
    {"user", "conversationCreate", "uploads", "userMessage",
     "assistantMessage", "progressEvent"}

\* C15: a persistence write that fails during a chat request never turns
\* the response into an error: a request that ends at one of its writes
\* ends with status 200 and the assistant reply
C15_WriteFailureNeverFailsChat ==
    [][\A p \in Procs :
          (req[p].at \in PersistenceSteps /\ Responds(p))
          => /\ resp'.status = 200
             /\ resp'.reply # << >>]_vars


\* C16: when a chat request carries no conversationId, a conversation row
\* is created only if the user has no conversation started within the
\* reuse window; a request of a user who has one reuses it.
C16_NoIdCreatesOnlyOutsideWindow ==
    [][\A p \in Procs :
          (/\ req[p].at = "conversationCreate"
           /\ req[p].h = "chat"
           /\ req[p].conversationId = 0
           /\ Len(conversations') = Len(conversations) + 1)
          => ReusableSince(req[p].user, now - reuseWindowMinutes) = {}]_vars

\* C17 as stated: when a chat request carries a conversationId, a
\* conversation row is created if and only if no conversation has that id;
\* a conversation that exists is the one the request goes on with, and no
\* row is created.
C17_SuppliedIdCreatesIffUnknown ==
    [][\A p \in Procs :
          /\ (/\ req[p].at = "conversationCreate"
              /\ req[p].h = "chat"
              /\ req[p].conversationId # 0
              /\ Len(conversations') = Len(conversations) + 1)
             => req[p].conversationId \notin ConversationIds
          /\ (/\ req[p].at = "conversationFind"
              /\ req[p].h = "chat"
              /\ req[p].conversationId \notin ConversationIds)
             => req'[p].at = "conversationCreate"
          /\ (/\ req[p].at = "conversationFind"
              /\ req[p].h = "chat"
              /\ req'[p].at = AfterConversation(req[p]))
             => /\ req'[p].conversation = req[p].conversationId
                /\ conversations' = conversations]_vars

\* C17 amended: the same, for a request whose lookup by id did not throw:
\* a row is created only if no conversation has the supplied id, a request
\* with an unknown id goes on to the create, and a request that leaves the
\* lookup with a conversation has the one it named and created no row.
\* (After a lookup that threw, the handler creates a row whatever exists.)
C17_SuppliedIdCreatesIffUnknownOrLookupThrew ==
    [][\A p \in Procs :
          /\ (/\ req[p].at = "conversationCreate"
              /\ req[p].h = "chat"
              /\ req[p].conversationId # 0
              /\ ~req[p].lookupThrew
              /\ Len(conversations') = Len(conversations) + 1)
             => req[p].conversationId \notin ConversationIds
          /\ (/\ req[p].at = "conversationFind"
              /\ req[p].h = "chat"
              /\ req[p].conversationId \notin ConversationIds)
             => req'[p].at = "conversationCreate"
          /\ (/\ req[p].at = "conversationFind"
              /\ req[p].h = "chat"
              /\ req'[p].at = AfterConversation(req[p]))
             => /\ req'[p].conversation = req[p].conversationId
                /\ conversations' = conversations]_vars

\* a request that named an unknown id got a new row after a lookup that
\* did not throw
C17_Witness ==
    \E p \in Procs :
        /\ req[p].at \in {"uploads", "userMessage"}
        /\ req[p].h = "chat"
        /\ ~req[p].lookupThrew
        /\ req[p].conversationId = UnknownConversationId
        /\ req[p].conversation = Len(conversations)
        /\ Len(conversations) > Len(SeedConversations)

\* the resolutions that hold a conversation
Resolving ==
    {p \in Procs : /\ req[p].at \in {"findFirst", "create", "saveMessages"}
                   /\ req[p].conversation # 0}

\* C18: whatever the interleaving of two reuse-window resolutions, each
\* resolution holds a conversation that exists and is owned by its user
\* (so two resolutions of one user share a conversation or hold two of that
\* user's), every message is attached to a conversation that exists, and
\* every conversation has an owner.
C18_RacingResolutionsStayConsistent ==
    /\ \A p \in Resolving :
          /\ req[p].conversation \in ConversationIds
          /\ conversations[req[p].conversation].userId = req[p].user
    /\ \A m \in MessageIds : messages[m].conversationId \in ConversationIds
    /\ \A c \in ConversationIds : conversations[c].userId \in UserIds

\* both resolutions of one user missed the window, each created its own
\* conversation, and a message is already stored under one of them
C18_Witness ==
    /\ Resolving = {}
    /\ resp.kind = "resolved"
    /\ resp.created
    /\ \E c, d \in ConversationIds :
          /\ c # d
          /\ c > Len(SeedConversations)
          /\ d > Len(SeedConversations)
          /\ conversations[c].userId = resp.user
          /\ conversations[d].userId = resp.user
          /\ conversations[c].createdAt = conversations[d].createdAt
          /\ \E m, n \in MessageIds :
                /\ messages[m].conversationId = c
                /\ messages[n].conversationId = d

\* the account response carries a weekly summary
HasWeeklySummary == resp.kind = "summary" /\ resp.hasData

\* C19: in every summary, avgCaloriesPerDay is 0 when no day has a calorie
\* bucket, and otherwise the integer nearest to the sum of the buckets
\* divided by the number of days that have one.
C19_AverageOverDaysWithBucket ==
    HasWeeklySummary =>
        LET byDay == caloriesByDay(Ids(resp.recentMessages), now)
            days == Cardinality(DOMAIN byDay)
            total == SumBuckets(byDay)
            avg == resp.summary.avgCaloriesPerDay
        IN  IF days = 0 THEN avg = 0
            ELSE /\ 2 * total - days <= 2 * days * avg
                 /\ 2 * days * avg <= 2 * total + days

\* a summary over two meals with a calorie figure on the same day: the
\* average is the day's total, not the total over the meals or the window
C19_Witness ==
    /\ HasWeeklySummary
    /\ LET byDay == caloriesByDay(Ids(resp.recentMessages), now)
       IN  /\ Cardinality(DOMAIN byDay) = 1
           /\ Cardinality(CalorieRows(Ids(resp.recentMessages), now)) = 2
           /\ resp.summary.avgCaloriesPerDay = SumBuckets(byDay)
           /\ resp.summary.avgCaloriesPerDay > WindowDays

\* the ProgressEvent rows of a user created inside the 7-day window
EventsInWindow(user) ==
    {e \in 1..Len(events) : /\ events[e].userId = user
                            /\ events[e].createdAt >= WeekAgo(now)}

EventsOfType(user, type) ==
    {e \in EventsInWindow(user) : events[e].type = type}

RECURSIVE SumEventCalories(_)
SumEventCalories(rows) ==
    IF rows = {} THEN 0
    ELSE LET e == CHOOSE e \in rows : TRUE
         IN  events[e].payload.calories + SumEventCalories(rows \ {e})

\* C20: a summary for a user who has ProgressEvent rows in the window
\* counts those rows by type and averages the calories of the meal_log
\* rows over the days that have one; the events of 400, 600 and 500 kcal
\* on one day and 300 kcal on the next give an average of 900.
C20_SummaryFromProgressEvents ==
    (HasWeeklySummary /\ EventsInWindow(resp.user) # {}) =>
        LET meals == EventsOfType(resp.user, "meal_log")
            days == {DayKey(events[e].createdAt) : e \in meals}
        IN  /\ resp.summary.mealsThisWeek = Cardinality(meals)
            /\ resp.summary.bodyScansThisWeek
                  = Cardinality(EventsOfType(resp.user, "body_scan"))
            /\ resp.summary.workoutsThisWeek
                  = Cardinality(EventsOfType(resp.user, "workout_plan"))
            /\ resp.summary.avgCaloriesPerDay
                  = IF days = {} THEN 0
                    ELSE MathRound(SumEventCalories(meals), Cardinality(days))
            /\ events = WeeklyEvents => resp.summary.avgCaloriesPerDay = 900

\* C21: when count or findMany throws while the user has messages to load,
\* the handler still answers 200 with data, and the four numbers of the
\* weekly summary are 0.
C21_StorageErrorGivesZeroSummary ==
    [][\A p \in Procs :
          (/\ req[p].at \in {"count", "findMany"}
           /\ req[p].h = "account"
           /\ Responds(p)
           /\ MessagesWhere(req[p].user, req[p].soft) # {}
           /\ resp'.totalMessages = 0)
          => /\ resp'.kind = "summary"
             /\ resp'.status = 200
             /\ resp'.hasData
             /\ resp'.summary = [mealsThisWeek |-> 0, bodyScansThisWeek |-> 0,
                                 workoutsThisWeek |-> 0,
                                 avgCaloriesPerDay |-> 0]]_vars

\* a zeroed summary for a user whose stored replies would have counted
C21_Witness ==
    /\ HasWeeklySummary
    /\ resp.totalMessages = 0
    /\ resp.summary.mealsThisWeek = 0
    /\ resp.summary.avgCaloriesPerDay = 0
    /\ LET stored == WeeklySummary(MessagesOf(resp.user), now)
       IN  stored.mealsThisWeek > 0 /\ stored.avgCaloriesPerDay > 0

\* the Message rows in the conversations of a user
RowsInConversationsOf(user) ==
    {m \in MessageIds : conversations[messages[m].conversationId].userId = user}

\* the dashboard of process p answers a request whose user lookup found
\* the user
AnswersFor(p) ==
    /\ req[p].at \in {"count", "findMany"}
    /\ req[p].h = "account"
    /\ Responds(p)

\* C22 as stated: after completed chat turns, with nothing hidden, every
\* dashboard answer for a stored user has hasData true and totalMessages
\* equal to the number of Message rows in that user's conversations.
C22_SummaryCountsEveryRow ==
    [][\A p \in Procs :
          (AnswersFor(p) /\ hidden = EmptyBag)
          => /\ resp'.hasData
             /\ resp'.totalMessages
                   = Cardinality(RowsInConversationsOf(req[p].user))]_vars

\* C22: after completed chat turns, with nothing hidden, every dashboard
\* answer for a user the lookup found has hasData true, and totalMessages
\* equal to the number of Message rows in that user's conversations, or 0
\* when count or findMany threw.
C22_SummaryCountsEveryRowUnlessLoadThrew ==
    [][\A p \in Procs :
          (AnswersFor(p) /\ hidden = EmptyBag)
          => /\ resp'.hasData
             /\ \/ resp'.totalMessages
                      = Cardinality(RowsInConversationsOf(req[p].user))
                \/ resp' = LoadFailed(req[p])]_vars

\* the dashboard of a guest whose one turn stored a message and a plain
\* reply in a new conversation: hasData true and totalMessages 2
C22_Witness ==
    /\ resp.kind = "summary"
    /\ resp.hasData
    /\ resp.totalMessages = 2
    /\ resp.user = Len(SeedUsers) + 1
    /\ Len(messages) = Len(SeedMessages) + 2
    /\ LET m == Len(messages)
       IN  /\ messages[m].role = "assistant"
           /\ messages[m - 1].role = "user"
           /\ messages[m].conversationId = Len(SeedConversations) + 1
           /\ messages[m - 1].conversationId = Len(SeedConversations) + 1
    /\ events = << >>

\* the link of the last preview entry is the one the policy names: the
\* earliest assistant message of the upload's conversation at or after
\* the upload, else the latest message of that conversation at or before
\* it, else none; none for an upload without a conversation
LinkedByPolicy ==
    LET u == uploads[resp.upload]
        m == resp.messageId
        after == {k \in MessageIds :
                    /\ messages[k].conversationId = u.conversationId
                    /\ messages[k].role = "assistant"
                    /\ messages[k].createdAt >= u.createdAt}
        before == {k \in MessageIds :
                     /\ messages[k].conversationId = u.conversationId
                     /\ messages[k].createdAt <= u.createdAt}
    IN  /\ m # 0 => messages[m].conversationId = u.conversationId
        /\ IF u.conversationId = 0 THEN m = 0
           ELSE IF after # {}
           THEN /\ m \in after
                /\ \A k \in after : messages[m].createdAt <= messages[k].createdAt
           ELSE IF before # {}
           THEN /\ m \in before
                /\ \A k \in before : messages[k].createdAt <= messages[m].createdAt
           ELSE m = 0

\* C23 as stated: every upload is linked as the policy says.
C23_UploadLinkedByPolicy == resp.kind = "link" => LinkedByPolicy

\* C23: an upload is linked as the policy says when neither lookup
\* throws, and to no message when one throws.
C23_UploadLinkedByPolicyUnlessLookupThrew ==
    resp.kind = "link" =>
        IF log = << >> THEN LinkedByPolicy ELSE resp.messageId = 0

\* an upload linked to the assistant message that followed it although
\* its conversation also holds a message from before the upload
C23_Witness ==
    /\ resp.kind = "link"
    /\ log = << >>
    /\ resp.messageId # 0
    /\ messages[resp.messageId].role = "assistant"
    /\ messages[resp.messageId].createdAt > uploads[resp.upload].createdAt
    /\ \E k \in MessageIds :
          /\ messages[k].conversationId = uploads[resp.upload].conversationId
          /\ messages[k].createdAt < uploads[resp.upload].createdAt

\* the offsets of a text where a figure starts: two to four digits, any
\* white space, then kcal or calories in either case
FigureOffsets(text) ==
    {i \in 0..Len(text) :
        \E n \in 2..4 : CalorieMatchAt(toLowerCase(text), i, n)}

\* the first figure of each text of the ledgers, -1 for a text without one
FirstFigure ==
    [c \in Contents \cup WeeklyContents |->
        IF FigureOffsets(c) = {} THEN -1
        ELSE LET i == CHOOSE i \in FigureOffsets(c) :
                          \A j \in FigureOffsets(c) : i <= j
                 n == CHOOSE n \in 2..4 :
                          /\ CalorieMatchAt(toLowerCase(c), i, n)
                          /\ \A k \in 2..4 :
                                CalorieMatchAt(toLowerCase(c), i, k) => k <= n
             IN  ParseInt(SubSeq(c, i + 1, i + n))]

\* whether each text of the ledgers matches a meal indicator
MealIndicator ==
    [c \in Contents \cup WeeklyContents |-> isMealLikeFromContent(c)]

RECURSIVE SumFigures(_)
SumFigures(rows) ==
    IF rows = {} THEN 0
    ELSE LET m == CHOOSE m \in rows : TRUE
         IN  FirstFigure[messages[m].content] + SumFigures(rows \ {m})

\* the loaded messages that count as meals: assistant messages of the
\* last 7 days whose text matches a meal indicator
MealsScanned ==
    {m \in Ids(resp.recentMessages) :
        /\ messages[m].role = "assistant"
        /\ messages[m].createdAt >= now - WindowDays * TicksPerDay
        /\ MealIndicator[messages[m].content]}

C25_SameRowsSameListing ==
    [][\A p \in Procs :
          (/\ req[p].at = "findMany"
           /\ req[p].h = "account"
           /\ Responds(p)
           /\ resp.kind = "summary"
           /\ resp.hasData
           /\ Ids(resp'.recentMessages) = Ids(resp.recentMessages))
          => resp'.recentMessages = resp.recentMessages]_vars

\* C26: each Message with a user id lies in a conversation owned by that
\* user, whatever conversationId the chat requests carried.
C26_MessagesInOwnConversations ==
    \A m \in MessageIds :
        messages[m].userId # 0
        => conversations[messages[m].conversationId].userId = messages[m].userId

\* C27 as stated: in every summary recentMessages is no longer than
\* totalMessages, and a non-empty recentMessages comes with a
\* totalMessages above 0.
C27_RecentWithinTotal ==
    (resp.kind = "summary" /\ resp.hasData) =>
        /\ Len(resp.recentMessages) <= resp.totalMessages
        /\ resp.recentMessages # << >> => resp.totalMessages > 0

\* C27: in every summary a non-empty recentMessages comes with a
\* totalMessages above 0, and recentMessages is longer than totalMessages
\* by no more than the number of messages appended; hides never make it
\* longer.
C27_RecentWithinTotalPlusAppended ==
    (resp.kind = "summary" /\ resp.hasData) =>
        /\ Len(resp.recentMessages)
              <= resp.totalMessages + (Len(messages) - Len(SeedMessages))
        /\ resp.recentMessages # << >> => resp.totalMessages > 0

\* a summary whose count ran before an append and whose load ran after it
C27_Witness ==
    /\ resp.kind = "summary"
    /\ resp.hasData
    /\ resp.totalMessages > 0
    /\ Len(resp.recentMessages) > resp.totalMessages

\* C28: the weekly counts of a summary whose messages loaded cover every
\* assistant message of the user's conversations created in the last 7
\* days whose text matches, however many messages are stored.
C28_WeeklyCountsCoverEveryMessage ==
    (HasWeeklySummary /\ resp.recentMessages # << >>) =>
        LET week == {m \in MessageIds :
                       /\ conversations[messages[m].conversationId].userId
                             = resp.user
                       /\ messages[m].role = "assistant"
                       /\ messages[m].createdAt
                             >= now - WindowDays * TicksPerDay}
        IN  /\ resp.summary.mealsThisWeek
                  = Cardinality({m \in week :
                                    Classified[messages[m].content].looksLikeMeal})
            /\ resp.summary.workoutsThisWeek
                  = Cardinality({m \in week :
                                    Classified[messages[m].content].looksLikeWorkout})
            /\ resp.summary.bodyScansThisWeek
                  = Cardinality({m \in week :
                                    Classified[messages[m].content].looksLikeBodyScan})

\* C29: every stored ProgressEvent has one of the four types, and one
\* that names a message names an assistant message of the event's
\* conversation; when the event is stored, that message is the one the
\* same request has just stored.
C29_EventReferencesOwnAssistantMessage ==
    /\ [](\A e \in 1..Len(events) :
            /\ events[e].type
                  \in {"meal_log", "body_scan", "workout_plan", "insight"}
            /\ events[e].messageId # 0 =>
                  /\ events[e].messageId \in MessageIds
                  /\ messages[events[e].messageId].role = "assistant"
                  /\ messages[events[e].messageId].conversationId
                        = events[e].conversationId)
    /\ [][\A p \in Procs :
            (/\ req[p].at = "progressEvent"
             /\ Len(events') > Len(events)
             /\ events'[Len(events')].messageId # 0)
            => /\ events'[Len(events')].messageId = req[p].assistantRow
               /\ events'[Len(events')].messageId = Len(messages)
               /\ events'[Len(events')].turn = req[p].turn]_vars

\* a stored event that names the reply of its request
C29_Witness ==
    \E e \in 1..Len(events) :
        /\ events[e].messageId > Len(SeedMessages)
        /\ messages[events[e].messageId].role = "assistant"
        /\ events[e].type = "meal_log"

\* the overlay table has the same rows before and after the step, except
\* perhaps for the pair of the request
SameButFor(before, after, user, messageId) ==
    \A pair \in (BagToSet(before) \cup BagToSet(after)) \ {<<user, messageId>>} :
        CopiesIn(pair, before) = CopiesIn(pair, after)

\* the step that ends an accepted request of process p changes at most the
\* row of its (user, message) pair, in the table its action names
AcceptedWrite(p) ==
    /\ req[p].at \in {"upsertWrite", "deleteMany"}
    /\ Responds(p)
    /\ resp'.ok
    /\ IF req[p].action = "delete"
       THEN /\ pinned' = pinned
            /\ SameButFor(hidden, hidden', req[p].user, req[p].messageId)
       ELSE /\ hidden' = hidden
            /\ SameButFor(pinned, pinned', req[p].user, req[p].messageId)

\* C30: no step of a hide, pin or unpin request changes a User,
\* Conversation or Message row; an overlay row changes only in the step
\* that ends an accepted request, and then at most the row of the
\* request's (user, message) pair in the HiddenMessage table for a delete
\* and in the PinnedMessage table for a pin or unpin; every step of a
\* rejected request leaves both tables as they were.
C30_OverlayActionChangesOnlyItsRow ==
    [][/\ (req' # req \/ resp' # resp) =>
             /\ messages' = messages
             /\ users' = users
             /\ conversations' = conversations
       /\ (hidden' # hidden \/ pinned' # pinned) =>
             \E p \in Procs : AcceptedWrite(p)]_vars

\* an accepted unpin that removed its row while the overlay rows of
\* another message are still there
C30_Witness ==
    /\ resp.kind = "overlay"
    /\ resp.ok
    /\ resp.action = "unpin"
    /\ CopiesIn(<<resp.user, resp.messageId>>, pinned) = 0
    /\ BagToSet(pinned) \cup BagToSet(hidden) # {}
====
